---- MODULE Spec2Model ----
(***************************************************************************)
(* A state-machine model of the seven stand-alone programs of the          *)
(* graphics-course repository:                                             *)
(*   practice1  (src/unnamed/part_000)          a triangle                  *)
(*   homework1  (src/unnamed/part_001)          colour grid and isolines    *)
(*   practice5  (src/unnamed/part_002, first)   textured cow                *)
(*   practice2  (src/unnamed/part_002, second)  rotating fan                *)
(*   practice3  (src/2022/practice3/main.cpp)   Bezier curve                *)
(*   practice4  (src/unnamed/part_003, first)   three rotating bunnies      *)
(*   practice11 (src/unnamed/part_003, second)  frustum culling and LOD     *)
(* Every behaviour of Spec runs one program: prog is chosen by Init and    *)
(* never changes.  SpecLod runs practice11 alone, SpecIso applies          *)
(* create_isolines of homework1 to small grids.  Floats are modelled as    *)
(* integers: a time step dt is a whole number of seconds, lengths of       *)
(* practice11 are in tenths of a unit, pixel coordinates of practice3 in   *)
(* hundredths, grid coordinates of homework1 in thousandths.               *)
(***************************************************************************)
EXTENDS Integers, Sequences, FiniteSets, TLC

VARIABLES
    prog,          \* the program that runs
    pc,            \* position in main: init, setup, poll, body, poll2, catch, exited, crashed
    step,          \* index of the next initialization step in InitOrder(prog)
    done,          \* the initialization and shutdown calls that returned, in order
    exc,           \* what() of the exception in flight, "" when none
    stderr,        \* the lines written to std::cerr
    exit_code,     \* the value main returned, -1 while it runs
    running,       \* bool running
    event,         \* SDL_Event event: the event SDL_PollEvent returned last
    n_events,      \* number of events SDL_PollEvent has returned
    n_frames,      \* number of SDL_GL_SwapWindow calls
    dt,            \* float dt of the current frame
    time,          \* float time
    width,         \* int width
    height,        \* int height
    button_down,   \* std::map<SDL_Keycode, bool> button_down
    draws,         \* the draw calls of the current frame, in order
    bunny_x,       \* practice 4: float bunny_x
    bunny_y,       \* practice 4: float bunny_y
    angle_y,       \* practice 5: float angle_y, as its difference from M_PI
    offset_z,      \* practice 5: float offset_z
    n_meshes,          \* practice 11: input_model.meshes.size()
    mesh_min,          \* practice 11: input_model.meshes[0].min, in tenths
    mesh_max,          \* practice 11: input_model.meshes[0].max, in tenths
    vaos,              \* practice 11: std::vector<GLuint> vaos
    camera_position,   \* practice 11: glm::vec3 camera_position, in tenths
    camera_rotation,   \* practice 11: float camera_rotation, in radians
    paused,            \* practice 11: bool paused
    instances,         \* practice 11: std::vector<glm::vec3> instances[6] of the last frame
    printed,           \* practice 11: the numbers printed after "Number of objects drawn: "
    queries,           \* practice 11: std::vector<GLuint> queries
    is_query_free,     \* practice 11: std::vector<bool> is_query_free
    begun,             \* practice 11: the queries glBeginQuery was called on, in order
    results_read,      \* practice 11: the queries whose result was read and printed, in order
    ended,             \* practice 11: the queries that were active at a glEndQuery, in order
    unavailable,       \* practice 11: for each loop over the queries, the number of
                       \*   queries it left without an available result
    result_available,  \* practice 11: the queries for which the last loop over the queries
                       \*   got a true GL_QUERY_RESULT_AVAILABLE
    quality,           \* practice 3 and homework 1: int quality
    vertices,          \* practice 3: std::vector<vertex> vertices, positions in hundredths
    vertices_bezier,   \* practice 3: std::vector<vertex> vertices_bezier
    vbo,               \* practice 3: the data store of the buffer vbo
    vbo_bezier,        \* practice 3: the data store of the buffer vbo_bezier
    grid_w,            \* homework 1: long grid_w
    grid_h,            \* homework 1: long grid_h
    Cs,                \* homework 1: std::vector<uint8_t> Cs
    iso_call,          \* homework 1: what the last create_isolines call of main was given
    points,            \* create_isolines: points, coordinates in thousandths
    point_colours,     \* create_isolines: color[0] of each element of point_colours
    max_x,             \* create_isolines and init_grid_indices: long max_x
    max_y,             \* create_isolines and init_grid_indices: long max_y
    isopoints,         \* create_isolines: std::vector<vec2> isopoints
    iso_indices,       \* create_isolines: std::vector<unsigned int> iso_indices
    indices,           \* init_grid_indices: std::vector<unsigned int> indices
    calls              \* number of calls made of the function called on its own

mainVars == <<prog, pc, step, done, exc, stderr, exit_code, running, event,
              n_events, n_frames, dt, time, width, height, button_down, draws>>

p4Vars == <<bunny_x, bunny_y>>
p5Vars == <<angle_y, offset_z>>

p11Vars == <<n_meshes, mesh_min, mesh_max, vaos, camera_position, camera_rotation,
             paused, instances, printed, queries, is_query_free, begun, results_read,
             ended, result_available, unavailable>>

p3Vars == <<vertices, vertices_bezier, vbo, vbo_bezier>>
hwVars == <<grid_w, grid_h, Cs, iso_call>>

\* the arguments of create_isolines, called on its own
isoVars == <<points, point_colours, max_x, max_y, isopoints, iso_indices, indices,
            calls>>

userVars == <<p4Vars, p5Vars, p11Vars, quality, p3Vars, hwVars, isoVars>>

\* what a program leaves alone: the variables of the other programs
notP4 == <<p5Vars, p11Vars, quality, p3Vars, hwVars, isoVars>>
notP5 == <<p4Vars, p11Vars, quality, p3Vars, hwVars, isoVars>>
notP11 == <<p4Vars, p5Vars, quality, p3Vars, hwVars, isoVars>>
notP3 == <<p4Vars, p5Vars, p11Vars, hwVars, isoVars>>
notHw == <<p4Vars, p5Vars, p11Vars, p3Vars, isoVars>>

vars == <<mainVars, userVars>>

(***************************************************************************)
(* Bounds of the model.                                                    *)
(***************************************************************************)
MaxFrames == 2      \* frames rendered in one run
MaxEvents == 2      \* events delivered in one run
MaxDt == 1          \* largest frame time, in seconds

MaxCalls == 2       \* calls of create_isolines with the same arguments
MaxSide == 10       \* points along one side of the grid init_grid_indices is given

DtValues == 1..MaxDt

\* practice 11: the number of meshes in the glTF file read at start
MeshCounts == {5, 6}

(***************************************************************************)
(* The programs and their initialization sequences.                        *)
(***************************************************************************)
Progs == {"practice1", "homework1", "practice5", "practice2", "practice3",
          "practice4", "practice11"}

EXIT_FAILURE == 1

\* practice 4
speed == 2

\* practice 11: the number of lists and of draws, the highest level, the loop
\* bounds of the grid, and near = 0.1f and far = 100.f in tenths
NumLods == 6
MaxLod == 5
fixed_lod_value == 1
GridFirst == -16
GridEnd == 16
near == 1
far == 1000

\* practice 3, 4, 5, 11 and homework 1 request the context attributes first
AttributesFirst ==
    <<"SDL_Init", "SDL_GL_SetAttribute", "SDL_CreateWindow", "SDL_GL_CreateContext",
      "glewInit", "GLEW_VERSION_3_3", "create_shader(GL_VERTEX_SHADER)",
      "create_shader(GL_FRAGMENT_SHADER)", "create_program">>

\* practice 2 creates the window first
WindowFirst ==
    <<"SDL_Init", "SDL_CreateWindow", "SDL_GL_SetAttribute", "SDL_GL_CreateContext",
      "glewInit", "GLEW_VERSION_3_3", "create_shader(GL_VERTEX_SHADER)",
      "create_shader(GL_FRAGMENT_SHADER)", "create_program">>

\* practice 1 creates the window first and compiles the fragment shader first
WindowFirstFragmentFirst ==
    <<"SDL_Init", "SDL_CreateWindow", "SDL_GL_SetAttribute", "SDL_GL_CreateContext",
      "glewInit", "GLEW_VERSION_3_3", "create_shader(GL_FRAGMENT_SHADER)",
      "create_shader(GL_VERTEX_SHADER)", "create_program">>

\* a main that creates the GL context before it requests the attributes
ContextBeforeAttributes(p) ==
    <<"SDL_Init", "SDL_CreateWindow", "SDL_GL_CreateContext", "SDL_GL_SetAttribute",
      "glewInit", "GLEW_VERSION_3_3", "create_shader(GL_VERTEX_SHADER)",
      "create_shader(GL_FRAGMENT_SHADER)", "create_program">>

InitOrder(p) ==
    CASE p = "practice1" -> WindowFirstFragmentFirst
      [] p = "practice2" -> WindowFirst
      [] OTHER -> AttributesFirst

\* The steps whose result main tests; SDL_GL_SetAttribute's result is ignored.
Failable ==
    {"SDL_Init", "SDL_CreateWindow", "SDL_GL_CreateContext", "glewInit",
     "GLEW_VERSION_3_3", "create_shader(GL_VERTEX_SHADER)",
     "create_shader(GL_FRAGMENT_SHADER)", "create_program"}

\* what() of the std::runtime_error a failed step throws.  practice 1 throws
\* the bare info log of the shader or program.
Message(p, s) ==
    CASE s = "SDL_Init" -> "SDL_Init: "
      [] s = "SDL_CreateWindow" -> "SDL_CreateWindow: "
      [] s = "SDL_GL_CreateContext" -> "SDL_GL_CreateContext: "
      [] s = "glewInit" -> "glewInit: "
      [] s = "GLEW_VERSION_3_3" -> "OpenGL 3.3 is not supported"
      [] s \in {"create_shader(GL_VERTEX_SHADER)", "create_shader(GL_FRAGMENT_SHADER)"} ->
            IF p = "practice1" THEN "info log" ELSE "Shader compilation failed: "
      [] s = "create_program" ->
            IF p = "practice1" THEN "info log" ELSE "Program linkage failed: "

Messages == {Message(p, s) : p \in Progs, s \in Failable}

(***************************************************************************)
(* Arithmetic.  A float of practice 11 is a whole number of tenths.        *)
(***************************************************************************)
Tenths(x) == 10 * x

Abs(x) == IF x < 0 THEN -x ELSE x
Min(a, b) == IF a < b THEN a ELSE b
Max(a, b) == IF a < b THEN b ELSE a

\* a / b rounded to the nearest integer, b > 0
RoundDiv(a, b) == IF a >= 0 THEN (2 * a + b) \div (2 * b) ELSE -((2 * (-a) + b) \div (2 * b))

\* (int) x of a float x kept in hundredths: truncation towards zero
Trunc(x) == IF x >= 0 THEN x \div 100 ELSE -((-x) \div 100)

RECURSIVE Gcd(_, _)
Gcd(a, b) == IF b = 0 THEN a ELSE Gcd(b, a % b)

\* the integer part of the square root
RECURSIVE Isqrt(_)
Isqrt(n) ==
    IF n < 2 THEN n
    ELSE LET r == 2 * Isqrt(n \div 4)
         IN IF (r + 1) * (r + 1) <= n THEN r + 1 ELSE r

\* <<std::cos(a), std::sin(a)>> in thousandths, a in radians
RECURSIVE Trig(_)
Trig(a) ==
    IF a = 0 THEN <<1000, 0>>
    ELSE IF a < 0 THEN LET t == Trig(-a) IN <<t[1], -t[2]>>
    ELSE LET t == Trig(a - 1)
         IN <<RoundDiv(t[1] * 540 - t[2] * 841, 1000),
              RoundDiv(t[2] * 540 + t[1] * 841, 1000)>>

Add(u, v) == <<u[1] + v[1], u[2] + v[2], u[3] + v[3]>>
Sub(u, v) == <<u[1] - v[1], u[2] - v[2], u[3] - v[3]>>
Dot(u, v) == u[1] * v[1] + u[2] * v[2] + u[3] * v[3]

\* glm::length of a vector in tenths, in hundredths
Length(v) == Isqrt(100 * Dot(v, v))

(***************************************************************************)
(* Events.  One record shape for all: sym holds the key or the mouse       *)
(* button, x and y the click position or the new window size.              *)
(***************************************************************************)
Ev(t, s, x, y) == [type |-> t, sym |-> s, x |-> x, y |-> y]

NoEvent == Ev("none", "", 0, 0)
QuitEvent == Ev("SDL_QUIT", "", 0, 0)
KeyDown(k) == Ev("SDL_KEYDOWN", k, 0, 0)
KeyUp(k) == Ev("SDL_KEYUP", k, 0, 0)
Resized(w, h) == Ev("SDL_WINDOWEVENT_RESIZED", "", w, h)
MouseDown(b, x, y) == Ev("SDL_MOUSEBUTTONDOWN", b, x, y)

ArrowKeys == {"SDLK_LEFT", "SDLK_RIGHT", "SDLK_UP", "SDLK_DOWN"}
\* the size SDL_GetWindowSize reports at start, and the sizes of resize events
InitialSize == <<800, 600>>
WindowSizes == {<<600, 600>>}

\* The keys a program reads, and one key none of them reads.
KeysOf(p) ==
    CASE p = "practice11" ->
            ArrowKeys \cup {"SDLK_w", "SDLK_s", "SDLK_a", "SDLK_d", "SDLK_SPACE"}
      [] p \in {"homework1", "practice5", "practice4"} -> ArrowKeys \cup {"SDLK_x"}
      [] p = "practice3" -> {"SDLK_LEFT", "SDLK_RIGHT", "SDLK_x"}
      [] OTHER -> {"SDLK_x"}

AllKeys == UNION {KeysOf(p) : p \in Progs}

ClickPositions == {<<200, 300>>}

EventsOf(p) ==
    {QuitEvent}
    \cup {KeyDown(k) : k \in KeysOf(p)} \cup {KeyUp(k) : k \in KeysOf(p)}
    \cup {Resized(s[1], s[2]) : s \in WindowSizes}
    \cup (IF p \in {"practice3", "homework1"}
          THEN {MouseDown(b, c[1], c[2]) :
                    b \in {"SDL_BUTTON_LEFT", "SDL_BUTTON_RIGHT"}, c \in ClickPositions}
          ELSE {})

\* a map in which a key that was never written reads as true
HeldUnlessReleased(k) == IF k \in DOMAIN button_down THEN button_down[k] ELSE TRUE

\* std::map::operator[]: a key that is not in the map reads as false
Held(k) == IF k \in DOMAIN button_down THEN button_down[k] ELSE FALSE

\* button_down[k] = v
SetKey(k, v) == [x \in (DOMAIN button_down) \cup {k} |->
                    IF x = k THEN v ELSE button_down[x]]

\* the reads button_down[k], k \in ks, of a frame insert the keys that are missing
ReadKeys(ks) == [x \in (DOMAIN button_down) \cup ks |-> Held(x)]

(***************************************************************************)
(* practice 3: the Bezier curve.  A vec2 is a record: nan tells that the   *)
(* floats are NaN, x and y are in hundredths of a pixel otherwise.         *)
(***************************************************************************)
Vec2(x, y) == [x |-> x, y |-> y, nan |-> FALSE]
NaNVec2 == [x |-> 0, y |-> 0, nan |-> TRUE]

\* vertex {position, color}
Vertex(position, color) == [position |-> position, color |-> color]

\* v1, v2, v3
InitialVertices ==
    << Vertex(Vec2(100 * 100, 100 * 100), <<20, 20, 20, 20>>),
       Vertex(Vec2(100 * 100, 100 * 600), <<20, 20, 20, 20>>),
       Vertex(Vec2(100 * 600, 100 * 100), <<20, 20, 20, 20>>) >>

\* the float i / d as the fraction <<i, d>>; 0 / 0 is NaN
IsNaN(t) == t[2] = 0

\* the weights the other way round
MixSwapped(a, b, t) == RoundDiv(a * t[1] + b * (t[2] - t[1]), t[2])

\* a * (1.f - t) + b * t on one coordinate
Mix(a, b, t) == RoundDiv(a * (t[2] - t[1]) + b * t[1], t[2])

\* points[i] * (1 - t) + points[i + 1] * t on x and on y
Lerp(a, b, t) ==
    IF IsNaN(t) \/ a.nan \/ b.nan THEN NaNVec2
    ELSE Vec2(Mix(a.x, b.x, t), Mix(a.y, b.y, t))

\* the passes k, k + 1, ... of De Casteljau's algorithm over the n points:
\* pass k overwrites points[i] for i + k + 1 < n, from left to right
RECURSIVE Casteljau(_, _, _)
Casteljau(pts, k, t) ==
    IF k + 1 >= Len(pts) THEN pts
    ELSE Casteljau(<<>> \o [i \in 1..Len(pts) |->
                                IF (i - 1) + k + 1 < Len(pts)
                                THEN Lerp(pts[i], pts[i + 1], t) ELSE pts[i]],
                   k + 1, t)

\* what the read of points[0] of an empty vector may give
GarbagePoints == {Vec2(0, 0), NaNVec2}

\* vec2 bezier(vertices, t) for a list that is not empty; on an empty list it
\* returns whatever the read of points[0] finds
bezier(vs, t, garbage) ==
    IF vs = <<>> THEN garbage
    ELSE Casteljau([i \in 1..Len(vs) |-> vs[i].position], 0, t)[1]

\* float t = 1.f * i / (quality - 1)
Parameter(i, q) == <<i, q - 1>>

\* count_bezier_vertices(quality, vertices, vertices_bezier): the new
\* vertices_bezier, with t = 1.f * i / (quality - 1) for sample i
count_bezier_vertices(q, vs, garbage) ==
    [n \in 1..q |-> Vertex(bezier(vs, Parameter(n - 1, q), garbage), <<0, 0, 0, 0>>)]

(***************************************************************************)
(* main up to the render loop.                                             *)
(***************************************************************************)
InitMain ==
    /\ pc = "init"
    /\ step = 1
    /\ done = <<>>
    /\ exc = ""
    /\ stderr = <<>>
    /\ exit_code = -1
    /\ running = TRUE
    /\ event = NoEvent
    /\ n_events = 0
    /\ n_frames = 0
    /\ dt = 0
    /\ time = 0
    /\ width = 0
    /\ height = 0
    /\ button_down = << >>
    /\ draws = <<>>
    /\ bunny_x = 0
    /\ bunny_y = 0
    /\ angle_y = 0
    /\ offset_z = -2
    /\ n_meshes \in (IF prog = "practice11" THEN MeshCounts ELSE {0})
    /\ mesh_min = IF prog = "practice11" THEN <<-5, 0, -5>> ELSE <<0, 0, 0>>
    /\ mesh_max = IF prog = "practice11" THEN <<5, 10, 5>> ELSE <<0, 0, 0>>
    /\ vaos = <<>>
    /\ camera_position = <<Tenths(0), 15, Tenths(3)>>
    /\ camera_rotation = 0
    /\ paused = FALSE
    /\ instances = [L \in 0..(NumLods - 1) |-> <<>>]
    /\ printed = <<>>
    /\ queries = <<>>
    /\ is_query_free = <<>>
    /\ begun = <<>>
    /\ results_read = <<>>
    /\ ended = <<>>
    /\ result_available = {}
    /\ unavailable = <<>>
    /\ quality = (CASE prog = "practice3" -> 30 [] prog = "homework1" -> 500 [] OTHER -> 0)
    /\ vertices = (IF prog = "practice3" THEN InitialVertices ELSE <<>>)
    /\ vertices_bezier = (IF prog = "practice3"
                          THEN count_bezier_vertices(30, InitialVertices, NaNVec2) ELSE <<>>)
    /\ vbo = vertices
    /\ vbo_bezier = vertices_bezier
    /\ grid_w = (IF prog = "homework1" THEN 500 ELSE 0)
    /\ grid_h = (IF prog = "homework1" THEN 500 ELSE 0)
    /\ Cs = (IF prog = "homework1" THEN <<200, 100, 50>> ELSE <<>>)
    /\ iso_call = <<>>

Init ==
    /\ prog \in Progs
    /\ InitMain
    /\ points = <<>>
    /\ point_colours = <<>>
    /\ max_x = 0
    /\ max_y = 0
    /\ isopoints = <<>>
    /\ iso_indices = <<>>
    /\ indices = <<>>
    /\ calls = 0

\* The next initialization step returns success.
InitStepOk ==
    /\ pc = "init"
    /\ done' = Append(done, InitOrder(prog)[step])
    /\ step' = step + 1
    /\ pc' = IF step = Len(InitOrder(prog)) THEN "setup" ELSE "init"
    /\ IF InitOrder(prog)[step] = "SDL_CreateWindow" /\ prog # "practice1"
       THEN width' = InitialSize[1] /\ height' = InitialSize[2]
       ELSE UNCHANGED <<width, height>>
    /\ UNCHANGED <<prog, exc, stderr, exit_code, running, event, n_events, n_frames,
                   dt, time, button_down, draws, userVars>>

\* The next initialization step fails: sdl2_fail, glew_fail, create_shader or
\* create_program throws std::runtime_error, which unwinds main.
InitStepFail ==
    /\ pc = "init"
    /\ InitOrder(prog)[step] \in Failable
    /\ exc' = Message(prog, InitOrder(prog)[step])
    /\ pc' = "catch"
    /\ UNCHANGED <<prog, step, done, stderr, exit_code, running, event, n_events,
                   n_frames, dt, time, width, height, button_down, draws, userVars>>

\* a handler that prints the message and falls off the end of main
CatchReturnsZero ==
    /\ pc = "catch"
    /\ stderr' = Append(stderr, exc)
    /\ exit_code' = 0
    /\ pc' = "exited"
    /\ UNCHANGED <<prog, step, done, exc, running, event, n_events, n_frames,
                   dt, time, width, height, button_down, draws, userVars>>

\* a handler that starts main over
CatchRetries ==
    /\ pc = "catch"
    /\ stderr' = Append(stderr, exc)
    /\ step' = 1
    /\ pc' = "init"
    /\ UNCHANGED <<prog, done, exc, exit_code, running, event, n_events, n_frames,
                   dt, time, width, height, button_down, draws, userVars>>

\* catch (std::exception const & e): print e.what(), return EXIT_FAILURE.
Catch ==
    /\ pc = "catch"
    /\ stderr' = Append(stderr, exc)
    /\ exit_code' = EXIT_FAILURE
    /\ pc' = "exited"
    /\ UNCHANGED <<prog, step, done, exc, running, event, n_events, n_frames,
                   dt, time, width, height, button_down, draws, userVars>>

(***************************************************************************)
(* The render loop: what all programs share.                               *)
(***************************************************************************)
Draw(call, count) == [call |-> call, vao |-> 0, mesh |-> 0, data |-> <<>>, count |-> count]

\* the events delivered to a run of p: practice 3 gets two more, three right
\* clicks remove its three initial control points and a fourth finds none
EventsIn(p) == IF p = "practice3" THEN MaxEvents + 2 ELSE MaxEvents

\* the frames of a run: practice 11 runs one more when no event has come, which
\* is what its pool of queries needs to hold two free ones at a glBeginQuery
FramesIn == IF prog = "practice11" /\ n_events = 0 THEN MaxFrames + 1 ELSE MaxFrames

\* for (SDL_Event event; SDL_PollEvent(&event);): SDL_PollEvent returns e.
\* case SDL_QUIT: running = false.
Polled(e) ==
    /\ n_events < EventsIn(prog)
    /\ e \in EventsOf(prog)
    /\ event' = e
    /\ n_events' = n_events + 1
    /\ running' = IF e.type = "SDL_QUIT" THEN FALSE ELSE running

\* case SDL_WINDOWEVENT_RESIZED: width = data1, height = data2
ResizedTo(e) ==
    IF e.type = "SDL_WINDOWEVENT_RESIZED"
    THEN width' = e.x /\ height' = e.y
    ELSE UNCHANGED <<width, height>>

\* the switch, had it had no case SDL_KEYUP
KeyRecordedDownOnly(e) ==
    button_down' = CASE e.type = "SDL_KEYDOWN" -> SetKey(e.sym, TRUE)
                     [] OTHER -> button_down

\* case SDL_KEYDOWN: button_down[sym] = true;  case SDL_KEYUP: button_down[sym] = false
KeyRecorded(e) ==
    button_down' = CASE e.type = "SDL_KEYDOWN" -> SetKey(e.sym, TRUE)
                     [] e.type = "SDL_KEYUP" -> SetKey(e.sym, FALSE)
                     [] OTHER -> button_down

\* SDL_PollEvent returns 0 in the loop at the top of the frame and the loop
\* variable event goes out of scope; if (!running) break
PollEmpty ==
    /\ pc = "poll"
    /\ pc' = IF running THEN "body" ELSE "shutdown"
    /\ event' = NoEvent
    /\ UNCHANGED <<prog, step, done, exc, stderr, exit_code, running, n_events,
                   n_frames, dt, time, width, height, button_down, draws, userVars>>

\* after the loop: SDL_GL_DeleteContext, SDL_DestroyWindow, main returns 0
Shutdown ==
    /\ pc = "shutdown"
    /\ done' = done \o <<"SDL_GL_DeleteContext", "SDL_DestroyWindow">>
    /\ exit_code' = 0
    /\ pc' = "exited"
    /\ UNCHANGED <<prog, step, exc, stderr, running, event, n_events, n_frames,
                   dt, time, width, height, button_down, draws, userVars>>

\* What stands between create_program and the loop.  practice 1 passes the
\* uninitialized pointer arrays to glGenVertexArrays, which writes through it:
\* the write lands somewhere or the process dies.
Setup ==
    /\ pc = "setup"
    /\ \/ pc' = "poll"
       \/ prog = "practice1" /\ pc' = "crashed"
    /\ vaos' = IF prog = "practice11" THEN [i \in 1..n_meshes |-> i] ELSE vaos
    /\ UNCHANGED <<prog, step, done, exc, stderr, exit_code, running, event, n_events,
                   n_frames, dt, time, width, height, button_down, draws, p4Vars, p5Vars,
                   n_meshes, mesh_min, mesh_max, camera_position, camera_rotation,
                   paused, instances, printed, queries, is_query_free, begun,
                   results_read, ended, result_available, unavailable, quality,
                   p3Vars, hwVars, isoVars>>

(***************************************************************************)
(* practice 1: a triangle.                                                 *)
(***************************************************************************)
P1Poll(e) ==
    /\ prog = "practice1"
    /\ pc = "poll"
    /\ Polled(e)
    /\ UNCHANGED <<prog, pc, step, done, exc, stderr, exit_code, n_frames, dt, time,
                   width, height, button_down, draws, userVars>>

P1Frame ==
    /\ prog = "practice1"
    /\ pc = "body"
    /\ n_frames < MaxFrames
    /\ draws' = <<Draw("glDrawArrays", 3)>>
    /\ n_frames' = n_frames + 1
    /\ pc' = "poll"
    /\ UNCHANGED <<prog, step, done, exc, stderr, exit_code, running, event, n_events,
                   dt, time, width, height, button_down, userVars>>

(***************************************************************************)
(* practice 2: a rotating triangle fan.                                    *)
(***************************************************************************)
P2Poll(e) ==
    /\ prog = "practice2"
    /\ pc = "poll"
    /\ Polled(e)
    /\ ResizedTo(e)
    /\ UNCHANGED <<prog, pc, step, done, exc, stderr, exit_code, n_frames, dt, time,
                   button_down, draws, userVars>>

P2Frame(d) ==
    /\ prog = "practice2"
    /\ pc = "body"
    /\ n_frames < MaxFrames
    /\ dt' = d
    /\ time' = time + d
    /\ draws' = <<Draw("glDrawArrays", 13)>>
    /\ n_frames' = n_frames + 1
    /\ pc' = "poll"
    /\ UNCHANGED <<prog, step, done, exc, stderr, exit_code, running, event, n_events,
                   width, height, button_down, userVars>>

(***************************************************************************)
(* practice 5: the textured cow.                                           *)
(***************************************************************************)
P5Poll(e) ==
    /\ prog = "practice5"
    /\ pc = "poll"
    /\ Polled(e)
    /\ ResizedTo(e)
    /\ KeyRecorded(e)
    /\ UNCHANGED <<prog, pc, step, done, exc, stderr, exit_code, n_frames, dt, time,
                   draws, userVars>>

P5Frame(d) ==
    /\ prog = "practice5"
    /\ pc = "body"
    /\ n_frames < MaxFrames
    /\ dt' = d
    /\ time' = time + d
    /\ offset_z' = offset_z - (IF Held("SDLK_UP") THEN 4 * d ELSE 0)
                            + (IF Held("SDLK_DOWN") THEN 4 * d ELSE 0)
    /\ angle_y' = angle_y + (IF Held("SDLK_LEFT") THEN 4 * d ELSE 0)
                          - (IF Held("SDLK_RIGHT") THEN 4 * d ELSE 0)
    /\ button_down' = ReadKeys(ArrowKeys)
    /\ draws' = <<Draw("glDrawElements", 0)>>
    /\ n_frames' = n_frames + 1
    /\ pc' = "poll"
    /\ UNCHANGED <<prog, step, done, exc, stderr, exit_code, running, event, n_events,
                   width, height, notP5>>

(***************************************************************************)
(* practice 4: three rotating bunnies.  The frame polls the event queue    *)
(* twice: before the draws (SDL_QUIT and the window events only) and after *)
(* them (keys as well).                                                    *)
(***************************************************************************)
\* the loop at the top of the frame: any other event falls through the switch
P4Poll(e) ==
    /\ prog = "practice4"
    /\ pc = "poll"
    /\ Polled(e)
    /\ ResizedTo(e)
    /\ UNCHANGED <<prog, pc, step, done, exc, stderr, exit_code, n_frames, dt, time,
                   button_down, draws, userVars>>

\* dt, time += dt, the three glDrawElements calls
P4Draw(d) ==
    /\ prog = "practice4"
    /\ pc = "body"
    /\ n_frames < MaxFrames
    /\ dt' = d
    /\ time' = time + d
    /\ draws' = <<Draw("glDrawElements", 0), Draw("glDrawElements", 0),
                  Draw("glDrawElements", 0)>>
    /\ pc' = "poll2"
    /\ UNCHANGED <<prog, step, done, exc, stderr, exit_code, running, event, n_events,
                   n_frames, width, height, button_down, userVars>>

\* the loop after the draws
P4Poll2(e) ==
    /\ prog = "practice4"
    /\ pc = "poll2"
    /\ Polled(e)
    /\ ResizedTo(e)
    /\ KeyRecorded(e)
    /\ bunny_x' = CASE e = KeyDown("SDLK_LEFT") -> bunny_x - speed * dt
                    [] e = KeyDown("SDLK_RIGHT") -> bunny_x + speed * dt
                    [] OTHER -> bunny_x
    /\ bunny_y' = CASE e = KeyDown("SDLK_UP") -> bunny_y + speed * dt
                    [] e = KeyDown("SDLK_DOWN") -> bunny_y - speed * dt
                    [] OTHER -> bunny_y
    /\ UNCHANGED <<prog, pc, step, done, exc, stderr, exit_code, n_frames, dt, time,
                   draws, notP4>>

\* SDL_PollEvent returns 0 in the second loop; SDL_GL_SwapWindow; while (running)
P4Swap ==
    /\ prog = "practice4"
    /\ pc = "poll2"
    /\ n_frames' = n_frames + 1
    /\ pc' = IF running THEN "poll" ELSE "shutdown"
    /\ event' = NoEvent
    /\ UNCHANGED <<prog, step, done, exc, stderr, exit_code, running, n_events,
                   dt, time, width, height, button_down, draws, userVars>>

(***************************************************************************)
(* practice 3: the Bezier curve.  The events change the control points and *)
(* the quality; each change is followed by update_vbos.                    *)
(***************************************************************************)
\* update_vbos, had it filled vbo_bezier before it calls count_bezier_vertices
UpdateVbosCurveFirst(q, vs) ==
    /\ quality' = q
    /\ vertices' = vs
    /\ vbo' = vs
    /\ vbo_bezier' = vertices_bezier
    /\ \/ /\ \E garbage \in GarbagePoints :
                 vertices_bezier' = count_bezier_vertices(q, vs, garbage)
          /\ pc' = pc
       \/ /\ vs = <<>>
          /\ vertices_bezier' = <<>>
          /\ pc' = "crashed"

\* update_vbos(quality, vertices, vertices_bezier, vbo, vbo_bezier) after the
\* change to vs and q: with no control point left bezier reads points[0] of
\* an empty vector, and the program dies there or goes on with what it read
UpdateVbos(q, vs) ==
    /\ quality' = q
    /\ vertices' = vs
    /\ vbo' = vs
    /\ \/ /\ \E garbage \in GarbagePoints :
                 vertices_bezier' = count_bezier_vertices(q, vs, garbage)
          /\ vbo_bezier' = vertices_bezier'
          /\ pc' = pc
       \/ /\ vs = <<>>
          /\ vertices_bezier' = <<>>
          /\ vbo_bezier' = vbo_bezier
          /\ pc' = "crashed"

\* the poll loop, had the left click put its point at the front of the list
P3PollFront(e) ==
    /\ prog = "practice3"
    /\ pc = "poll"
    /\ Polled(e)
    /\ ResizedTo(e)
    /\ CASE e.type = "SDL_MOUSEBUTTONDOWN" /\ e.sym = "SDL_BUTTON_LEFT" ->
               UpdateVbos(quality,
                          <<Vertex(Vec2(100 * e.x, 100 * e.y), <<20, 20, 20, 20>>)>>
                              \o vertices)
         [] e.type = "SDL_MOUSEBUTTONDOWN" /\ e.sym = "SDL_BUTTON_RIGHT"
               /\ Len(vertices) # 0 ->
               UpdateVbos(quality, SubSeq(vertices, 1, Len(vertices) - 1))
         [] e.type = "SDL_KEYDOWN" /\ e.sym = "SDLK_LEFT" /\ quality > 1 ->
               UpdateVbos(quality - 1, vertices)
         [] e.type = "SDL_KEYDOWN" /\ e.sym = "SDLK_RIGHT" ->
               UpdateVbos(quality + 1, vertices)
         [] OTHER -> UNCHANGED <<pc, quality, vertices, vertices_bezier, vbo, vbo_bezier>>
    /\ UNCHANGED <<prog, step, done, exc, stderr, exit_code, n_frames, dt, time,
                   button_down, draws, notP3>>

\* the poll loop of practice 3
P3Poll(e) ==
    /\ prog = "practice3"
    /\ pc = "poll"
    /\ Polled(e)
    /\ ResizedTo(e)
    /\ CASE e.type = "SDL_MOUSEBUTTONDOWN" /\ e.sym = "SDL_BUTTON_LEFT" ->
               UpdateVbos(quality,
                          Append(vertices,
                                 Vertex(Vec2(100 * e.x, 100 * e.y), <<20, 20, 20, 20>>)))
         [] e.type = "SDL_MOUSEBUTTONDOWN" /\ e.sym = "SDL_BUTTON_RIGHT"
               /\ Len(vertices) # 0 ->
               UpdateVbos(quality, SubSeq(vertices, 1, Len(vertices) - 1))
         [] e.type = "SDL_KEYDOWN" /\ e.sym = "SDLK_LEFT" /\ quality > 1 ->
               UpdateVbos(quality - 1, vertices)
         [] e.type = "SDL_KEYDOWN" /\ e.sym = "SDLK_RIGHT" ->
               UpdateVbos(quality + 1, vertices)
         [] OTHER -> UNCHANGED <<pc, quality, vertices, vertices_bezier, vbo, vbo_bezier>>
    /\ UNCHANGED <<prog, step, done, exc, stderr, exit_code, n_frames, dt, time,
                   button_down, draws, notP3>>

P3Frame(d) ==
    /\ prog = "practice3"
    /\ pc = "body"
    /\ n_frames < MaxFrames
    /\ dt' = d
    /\ time' = time + d
    /\ draws' = <<Draw("glDrawArrays", Len(vertices)), Draw("glDrawArrays", Len(vertices)),
                  Draw("glDrawArrays", Len(vertices_bezier))>>
    /\ n_frames' = n_frames + 1
    /\ pc' = "poll"
    /\ UNCHANGED <<prog, step, done, exc, stderr, exit_code, running, event, n_events,
                   width, height, button_down, userVars>>

(***************************************************************************)
(* homework 1: the colour grid and its isolines.  The vectors points,      *)
(* point_colours, isopoints and iso_indices of main are functions of       *)
(* grid_w, grid_h, time and Cs: the model holds those, and in iso_call     *)
(* what the frame's create_isolines call was given.                        *)
(***************************************************************************)
HwPoll(e) ==
    /\ prog = "homework1"
    /\ pc = "poll"
    /\ Polled(e)
    /\ ResizedTo(e)
    /\ KeyRecorded(e)
    /\ UNCHANGED <<prog, pc, step, done, exc, stderr, exit_code, n_frames, dt, time,
                   draws, userVars>>

\* (std::uint8_t)((last + 200) % 255)
NextThreshold(last) == ((last + 200) % 255) % 256

\* the frame, had each of the four keys had an if of its own
HwFrameEachKey(d) ==
    /\ prog = "homework1"
    /\ pc = "body"
    /\ n_frames < MaxFrames
    /\ dt' = d
    /\ time' = time + d
    /\ iso_call' = <<[time |-> time + d, max_x |-> grid_w, max_y |-> grid_h, Cs |-> Cs]>>
    /\ draws' = <<Draw("glDrawElements", 6 * (grid_w - 1) * (grid_h - 1)),
                  Draw("glDrawElements", 0)>>
    /\ button_down' =
          ReadKeys(ArrowKeys)
    /\ quality' = (IF Held("SDLK_LEFT") /\ quality > 10 THEN quality - 10 ELSE quality)
                  + (IF Held("SDLK_RIGHT") THEN 10 ELSE 0)
    /\ grid_w' = IF quality' # quality THEN quality' ELSE grid_w
    /\ grid_h' = IF quality' # quality THEN quality' ELSE grid_h
    /\ Cs' = IF Held("SDLK_UP") THEN Append(Cs, NextThreshold(Cs[Len(Cs)]))
             ELSE IF Held("SDLK_DOWN") /\ Len(Cs) > 1 THEN SubSeq(Cs, 1, Len(Cs) - 1)
             ELSE Cs
    /\ n_frames' = n_frames + 1
    /\ pc' = "poll"
    /\ UNCHANGED <<prog, step, done, exc, stderr, exit_code, running, event, n_events,
                   width, height, notHw>>

\* The frame from the frame time to the swap.  The else-if chain reads
\* button_down[SDLK_LEFT] first and each next key only when the keys before
\* it read false; the number of isoline indices drawn is not held.
HwFrame(d) ==
    /\ prog = "homework1"
    /\ pc = "body"
    /\ n_frames < MaxFrames
    /\ dt' = d
    /\ time' = time + d
    /\ iso_call' = <<[time |-> time + d, max_x |-> grid_w, max_y |-> grid_h, Cs |-> Cs]>>
    /\ draws' = <<Draw("glDrawElements", 6 * (grid_w - 1) * (grid_h - 1)),
                  Draw("glDrawElements", 0)>>
    /\ button_down' =
          ReadKeys(IF Held("SDLK_LEFT") THEN {"SDLK_LEFT"}
                   ELSE IF Held("SDLK_RIGHT") THEN {"SDLK_LEFT", "SDLK_RIGHT"}
                   ELSE IF Held("SDLK_UP") THEN {"SDLK_LEFT", "SDLK_RIGHT", "SDLK_UP"}
                   ELSE ArrowKeys)
    /\ quality' = IF Held("SDLK_LEFT") THEN (IF quality > 10 THEN quality - 10 ELSE quality)
                  ELSE IF Held("SDLK_RIGHT") THEN quality + 10
                  ELSE quality
    /\ grid_w' = IF quality' # quality THEN quality' ELSE grid_w
    /\ grid_h' = IF quality' # quality THEN quality' ELSE grid_h
    /\ Cs' = IF Held("SDLK_LEFT") \/ Held("SDLK_RIGHT") THEN Cs
             ELSE IF Held("SDLK_UP") THEN Append(Cs, NextThreshold(Cs[Len(Cs)]))
             ELSE IF Held("SDLK_DOWN") /\ Len(Cs) > 1 THEN SubSeq(Cs, 1, Len(Cs) - 1)
             ELSE Cs
    /\ n_frames' = n_frames + 1
    /\ pc' = "poll"
    /\ UNCHANGED <<prog, step, done, exc, stderr, exit_code, running, event, n_events,
                   width, height, notHw>>

(***************************************************************************)
(* practice 11: frustum culling and level of detail.                       *)
(***************************************************************************)
\* for i in GridFirst..GridEnd-1, for j in GridFirst..GridEnd-1: {1.f * i, 0.f, 1.f * j}
GridTranslations ==
    LET n == GridEnd - GridFirst
    IN [k \in 1..(n * n) |->
            <<Tenths(GridFirst + ((k - 1) \div n)), 0, Tenths(GridFirst + ((k - 1) % n))>>]

\* view = translate(rotate(mat4(1), rotation, {0, 1, 0}), -position): the rows
\* of the rotation in thousandths and the translation column, in tenths times
\* thousandths
View(rotation, position) ==
    LET c == Trig(rotation)[1]
        s == Trig(rotation)[2]
        X == <<c, 0, s>>
        Y == <<0, 1000, 0>>
        Z == <<-s, 0, c>>
    IN [X |-> X, Y |-> Y, Z |-> Z,
        t |-> <<-Dot(X, position), -Dot(Y, position), -Dot(Z, position)>>]

\* (glm::inverse(view) * vec4(0, 0, 0, 1)).xyz()
InverseOrigin(view) ==
    LET c == view.X[1]
        s == view.X[3]
        det == c * c + s * s
    IN <<(-(c * view.t[1] - s * view.t[3])) \div det,
         (-view.t[2]) \div 1000,
         (-(s * view.t[1] + c * view.t[3])) \div det>>

\* glm::perspective(pi / 2, (1.f * width) / height, near, far): the aspect
\* ratio as a reduced fraction, the tangent of half the field of view is 1
Perspective(w, h, n, f) ==
    [aspect |-> <<w \div Gcd(w, h), h \div Gcd(w, h)>>, near |-> n, far |-> f]

\* frustum f(projection * view): the six planes <<normal, offset>> of the clip
\* volume in world space; a point p is inside a plane when normal.p + offset >= 0
Frustum(projection, view) ==
    LET W == projection.aspect[1]
        H == projection.aspect[2]
        Scaled(k, v) == <<k * v[1], k * v[2], k * v[3]>>
        Plane(normal, t, extra) == <<normal, t + extra>>
    IN << Plane(Add(Scaled(-W, view.Z), Scaled(H, view.X)),
                -W * view.t[3] + H * view.t[1], 0),
          Plane(Sub(Scaled(-W, view.Z), Scaled(H, view.X)),
                -W * view.t[3] - H * view.t[1], 0),
          Plane(Add(Scaled(-1, view.Z), view.Y), -view.t[3] + view.t[2], 0),
          Plane(Sub(Scaled(-1, view.Z), view.Y), -view.t[3] - view.t[2], 0),
          Plane(Scaled(-1, view.Z), -view.t[3], -1000 * projection.near),
          Plane(view.Z, view.t[3], 1000 * projection.far) >>

\* aabb(min, max)
Aabb(lo, hi) == [min |-> lo, max |-> hi]

\* intersect(aabb, frustum): no plane has the whole box outside it
Intersect(box, frustum) ==
    \A k \in 1..Len(frustum) :
        LET n == frustum[k][1]
        IN Max(n[1] * box.min[1], n[1] * box.max[1])
           + Max(n[2] * box.min[2], n[2] * box.max[2])
           + Max(n[3] * box.min[3], n[3] * box.max[3])
           + frustum[k][2] >= 0

\* a bucketing that forgets the upper clamp
LodOfUnclamped(translation, camera) ==
    Max(0, Trunc((Length(Sub(translation, camera))) \div fixed_lod_value))

\* std::max(0, std::min(5, (int)(glm::length(translation - camera_position) / fixed_lod_value)))
LodOf(translation, camera) ==
    Max(0, Min(MaxLod, Trunc((Length(Sub(translation, camera))) \div fixed_lod_value)))

\* the translations the two loops pass to push_back, in loop order
Culled(frustum) ==
    SelectSeq(GridTranslations,
              LAMBDA t : Intersect(Aabb(Add(mesh_min, t), Add(mesh_max, t)), frustum))

\* lists that are not rebuilt: the frame appends to what the last frame left
BucketsKept(visible, camera) ==
    LET lod == [k \in 1..Len(visible) |-> LodOf(visible[k], camera)]
        index == [k \in 1..Len(visible) |-> k]
    IN [L \in 0..(NumLods - 1) |->
            LET chosen == SelectSeq(index, LAMBDA k : lod[k] = L)
            IN instances[L] \o [m \in 1..Len(chosen) |-> visible[chosen[m]]]]

\* std::vector<glm::vec3> instances[6], empty at the start of the frame:
\* instances[lod].push_back(translation) for each translation that passed
Buckets(visible, camera) ==
    LET lod == [k \in 1..Len(visible) |-> LodOf(visible[k], camera)]
        index == [k \in 1..Len(visible) |-> k]
    IN [L \in 0..(NumLods - 1) |->
            LET chosen == SelectSeq(index, LAMBDA k : lod[k] = L)
            IN [m \in 1..Len(chosen) |-> visible[chosen[m]]]]

\* the instanced draw of level L
InstancedDraw(L, lists) ==
    [call |-> "glDrawElementsInstanced",
     vao |-> IF L < Len(vaos) THEN vaos[L + 1] ELSE 0,
     mesh |-> L,
     data |-> lists[L],
     count |-> Len(lists[L])]

\* a search that takes the first query whether it is free or not
FirstWhetherFree == IF Len(is_query_free) > 0 THEN 0 ELSE Len(is_query_free)

\* the search, had it kept the last free query it meets
LastFree ==
    IF \E i \in 1..Len(is_query_free) : is_query_free[i]
    THEN (CHOOSE i \in 1..Len(is_query_free) :
             is_query_free[i] /\ \A j \in (i + 1)..Len(is_query_free) : ~is_query_free[j]) - 1
    ELSE Len(is_query_free)

\* the index of the first free query, Len(is_query_free) when there is none
FirstFree ==
    IF \E i \in 1..Len(is_query_free) : is_query_free[i]
    THEN (CHOOSE i \in 1..Len(is_query_free) :
             is_query_free[i] /\ \A j \in 1..(i - 1) : ~is_query_free[j]) - 1
    ELSE Len(is_query_free)

P11Poll(e) ==
    /\ prog = "practice11"
    /\ pc = "poll"
    /\ Polled(e)
    /\ ResizedTo(e)
    /\ KeyRecorded(e)
    /\ paused' = IF e = KeyDown("SDLK_SPACE") THEN ~paused ELSE paused
    /\ UNCHANGED <<prog, pc, step, done, exc, stderr, exit_code, n_frames, dt, time,
                   draws, notP11, n_meshes, mesh_min, mesh_max, vaos, camera_position,
                   camera_rotation, instances, printed, queries, is_query_free, begun,
                   results_read, ended, result_available, unavailable>>

\* The frame from the frame time to the print of the number of objects.  The
\* draw loop reads meshes[lod] and vaos[lod] for lod < 6: with fewer meshes the
\* read is outside the vectors, and the frame either dies there or draws with
\* what it finds.
P11Frame(d) ==
    /\ prog = "practice11"
    /\ pc = "body"
    /\ n_frames < FramesIn
    /\ dt' = d
    /\ time' = IF paused THEN time ELSE time + d
    /\ button_down' = ReadKeys(KeysOf("practice11") \ {"SDLK_SPACE"})
    /\ LET forward == (IF Held("SDLK_w") THEN -Tenths(3 * d) ELSE 0)
                      + (IF Held("SDLK_s") THEN Tenths(3 * d) ELSE 0)
           sideways == (IF Held("SDLK_a") THEN -Tenths(3 * d) ELSE 0)
                       + (IF Held("SDLK_d") THEN Tenths(3 * d) ELSE 0)
           rotation == camera_rotation
                       - (IF Held("SDLK_LEFT") THEN 3 * d ELSE 0)
                       + (IF Held("SDLK_RIGHT") THEN 3 * d ELSE 0)
           y == camera_position[2]
                - (IF Held("SDLK_DOWN") THEN Tenths(3 * d) ELSE 0)
                + (IF Held("SDLK_UP") THEN Tenths(3 * d) ELSE 0)
           c == Trig(rotation)[1]
           s == Trig(rotation)[2]
           position ==
               <<camera_position[1] + RoundDiv(forward * (-s), 1000)
                                    + RoundDiv(sideways * c, 1000),
                 y,
                 camera_position[3] + RoundDiv(forward * c, 1000)
                                    + RoundDiv(sideways * s, 1000)>>
           free_query_id == FirstFree
           view == View(rotation, position)
           projection == Perspective(width, height, near, far)
       IN \E f \in {Frustum(projection, view)} :
          \E visible \in {Culled(f)} :
          \E lists \in {Buckets(visible, InverseOrigin(view))} :
          /\ camera_rotation' = rotation
          /\ camera_position' = position
          /\ IF free_query_id = Len(queries)
             THEN /\ queries' = Append(queries, Len(queries) + 1)
                  /\ is_query_free' = Append(is_query_free, FALSE)
                  /\ begun' = Append(begun, Len(queries) + 1)
             ELSE /\ queries' = queries
                  /\ is_query_free' = [is_query_free EXCEPT ![free_query_id + 1] = FALSE]
                  /\ begun' = Append(begun, queries[free_query_id + 1])
          /\ instances' = lists
          /\ \/ /\ draws' = [L \in 1..NumLods |-> InstancedDraw(L - 1, lists)]
                /\ printed' = Append(printed, Len(lists[5]))
                /\ ended' = Append(ended, begun'[Len(begun')])
                /\ n_frames' = n_frames + 1
                /\ pc' = "queries"
             \/ /\ n_meshes < NumLods
                /\ draws' = [L \in 1..n_meshes |-> InstancedDraw(L - 1, lists)]
                /\ pc' = "crashed"
                /\ UNCHANGED <<printed, ended, n_frames>>
    /\ UNCHANGED <<prog, step, done, exc, stderr, exit_code, running, event, n_events,
                   width, height, notP11, n_meshes, mesh_min, mesh_max, vaos, paused,
                   results_read, result_available, unavailable>>

\* the loop over the queries, had it stopped at the first result it reads
P11PollQueriesFirstOnly(available) ==
    /\ prog = "practice11"
    /\ pc = "queries"
    /\ available \subseteq {i \in 1..Len(queries) : ~is_query_free[i]}
    /\ is_query_free' = [i \in 1..Len(queries) |-> is_query_free[i] \/ (i \in available /\ \A k \in available : i <= k)]
    /\ results_read' = results_read
                        \o SelectSeq(queries, LAMBDA q : q \in {queries[i] : i \in {k \in available : \A m \in available : k <= m}})
    /\ result_available' = {queries[i] : i \in available}
    /\ unavailable' = Append(unavailable,
            Cardinality({i \in 1..Len(queries) : ~is_query_free[i]} \ available))
    /\ pc' = "poll"
    /\ UNCHANGED <<prog, step, done, exc, stderr, exit_code, running, event, n_events,
                   n_frames, dt, time, width, height, button_down, draws, notP11,
                   n_meshes, mesh_min, mesh_max, vaos, camera_position, camera_rotation,
                   paused, instances, printed, queries, begun, ended>>

\* the loop over the queries at the end of the frame: available is the set of
\* the queries in flight whose result the GL reports available
P11PollQueries(available) ==
    /\ prog = "practice11"
    /\ pc = "queries"
    /\ available \subseteq {i \in 1..Len(queries) : ~is_query_free[i]}
    /\ is_query_free' = [i \in 1..Len(queries) |-> is_query_free[i] \/ i \in available]
    /\ results_read' = results_read
                        \o SelectSeq(queries, LAMBDA q : q \in {queries[i] : i \in available})
    /\ result_available' = {queries[i] : i \in available}
    /\ unavailable' = Append(unavailable,
            Cardinality({i \in 1..Len(queries) : ~is_query_free[i]} \ available))
    /\ pc' = "poll"
    /\ UNCHANGED <<prog, step, done, exc, stderr, exit_code, running, event, n_events,
                   n_frames, dt, time, width, height, button_down, draws, notP11,
                   n_meshes, mesh_min, mesh_max, vaos, camera_position, camera_rotation,
                   paused, instances, printed, queries, begun, ended>>

\* what every program does
NextMain ==
    \/ InitStepOk
    \/ InitStepFail
    \/ Catch
    \/ Setup
    \/ PollEmpty
    \/ Shutdown

NextP1 ==
    \/ \E e \in EventsOf("practice1") : P1Poll(e)
    \/ P1Frame

NextP2 ==
    \/ \E e \in EventsOf("practice2") : P2Poll(e)
    \/ \E d \in DtValues : P2Frame(d)

NextP5 ==
    \/ \E e \in EventsOf("practice5") : P5Poll(e)
    \/ \E d \in DtValues : P5Frame(d)

NextP4 ==
    \/ \E e \in EventsOf("practice4") : P4Poll(e)
    \/ \E d \in DtValues : P4Draw(d)
    \/ \E e \in EventsOf("practice4") : P4Poll2(e)
    \/ P4Swap

NextP3 ==
    \/ \E e \in EventsOf("practice3") : P3Poll(e)
    \/ \E d \in DtValues : P3Frame(d)

NextHw ==
    \/ \E e \in EventsOf("homework1") : HwPoll(e)
    \/ \E d \in DtValues : HwFrame(d)

NextP11 ==
    \/ \E e \in EventsOf("practice11") : P11Poll(e)
    \/ \E d \in DtValues : P11Frame(d)
    \/ \E a \in SUBSET (1..(MaxFrames + 1)) : P11PollQueries(a)

Next ==
    \/ NextMain
    \/ NextP1
    \/ NextP2
    \/ NextP5
    \/ NextP4
    \/ NextP3
    \/ NextHw
    \/ NextP11

Spec == Init /\ [][Next]_vars

(***************************************************************************)
(* create_isolines on its own.  Coordinates are in thousandths; a colour   *)
(* is its first component color[0].                                        *)
(***************************************************************************)
\* init_coordinates_grid(points, max_x, max_y)
init_coordinates_grid(mx, my) ==
    [n \in 1..(mx * my) |->
        <<RoundDiv(1000 * (2 * ((n - 1) \div my) - (mx - 1)), mx - 1),
          RoundDiv(1000 * (2 * ((n - 1) % my) - (my - 1)), my - 1)>>]

\* coeff, had it not taken val1 from the border
coeffOfBorder(val1, val2, border) ==
    IF val2 > val1 THEN <<border, val2 - val1>>
    ELSE <<-border, val1 - val2>>

\* float coeff(val1, val2, border), as the fraction <<numerator, denominator>>
\* with a positive denominator; val1 # val2
coeff(val1, val2, border) ==
    IF val2 > val1 THEN <<border - val1, val2 - val1>>
    ELSE <<val1 - border, val1 - val2>>

\* add_new_point, had indices_map held the points added so far
add_new_point_once(first_colour, ind1, second_colour, ind2, border, pts, iso) ==
    LET q == coeff(first_colour, second_colour, border)
        point == <<RoundDiv(pts[ind1 + 1][1] * (q[2] - q[1]) + pts[ind2 + 1][1] * q[1], q[2]),
                   RoundDiv(pts[ind1 + 1][2] * (q[2] - q[1]) + pts[ind2 + 1][2] * q[1], q[2])>>
    IN <<Append(iso[1], point),
         IF \E k \in 1..Len(iso[1]) : iso[1][k] = point THEN iso[2]
         ELSE Append(iso[2], Len(iso[2]))>>

\* add_new_point: iso is <<isopoints, iso_indices>>; indices_map is empty in
\* every call, so indices_map.count(...) == 0 holds and the index is pushed
add_new_point(first_colour, ind1, second_colour, ind2, border, pts, iso) ==
    LET q == coeff(first_colour, second_colour, border)
        point == <<RoundDiv(pts[ind1 + 1][1] * (q[2] - q[1]) + pts[ind2 + 1][1] * q[1], q[2]),
                   RoundDiv(pts[ind1 + 1][2] * (q[2] - q[1]) + pts[ind2 + 1][2] * q[1], q[2])>>
    IN <<Append(iso[1], point), Append(iso[2], Len(iso[2]))>>

\* the calls of a cell, had the fourth if, the edge from ld to lu, been left out
CellCallsThreeEdges(cols, my, i, j, border) ==
    LET lu_ind == i * my + j
        ru_ind == (i + 1) * my + j
        ld_ind == i * my + (j + 1)
        rd_ind == (i + 1) * my + (j + 1)
        lu == cols[lu_ind + 1]
        ru == cols[ru_ind + 1]
        ld == cols[ld_ind + 1]
        rd == cols[rd_ind + 1]
        int(b) == IF b THEN 1 ELSE 0
        sum == int(lu > border) + int(ru > border) + int(ld > border) + int(rd > border)
    IN IF sum = 0 \/ sum = 4 THEN <<>>
       ELSE (IF (lu > border) # (ru > border) THEN <<<<lu, lu_ind, ru, ru_ind>>>> ELSE <<>>)
            \o (IF (rd > border) # (ru > border) THEN <<<<rd, rd_ind, ru, ru_ind>>>> ELSE <<>>)
            \o (IF (ld > border) # (rd > border) THEN <<<<ld, ld_ind, rd, rd_ind>>>> ELSE <<>>)

\* the add_new_point calls of the cell (i, j) for one border, in the order of
\* the four ifs, as <<first_colour, ind1, second_colour, ind2>>
CellCalls(cols, my, i, j, border) ==
    LET lu_ind == i * my + j
        ru_ind == (i + 1) * my + j
        ld_ind == i * my + (j + 1)
        rd_ind == (i + 1) * my + (j + 1)
        lu == cols[lu_ind + 1]
        ru == cols[ru_ind + 1]
        ld == cols[ld_ind + 1]
        rd == cols[rd_ind + 1]
        int(b) == IF b THEN 1 ELSE 0
        sum == int(lu > border) + int(ru > border) + int(ld > border) + int(rd > border)
    IN IF sum = 0 \/ sum = 4 THEN <<>>
       ELSE (IF (lu > border) # (ru > border) THEN <<<<lu, lu_ind, ru, ru_ind>>>> ELSE <<>>)
            \o (IF (rd > border) # (ru > border) THEN <<<<rd, rd_ind, ru, ru_ind>>>> ELSE <<>>)
            \o (IF (ld > border) # (rd > border) THEN <<<<ld, ld_ind, rd, rd_ind>>>> ELSE <<>>)
            \o (IF (ld > border) # (lu > border) THEN <<<<ld, ld_ind, lu, lu_ind>>>> ELSE <<>>)

\* the three nested loops from the position (k, i, j) on
RECURSIVE IsolinesFrom(_, _, _, _, _, _, _, _)
IsolinesFrom(k, i, j, iso, pts, cols, mx, my) ==
    IF k >= Len(Cs) THEN iso
    ELSE IF i >= mx - 1 THEN IsolinesFrom(k + 1, 0, 0, iso, pts, cols, mx, my)
    ELSE IF j >= my - 1 THEN IsolinesFrom(k, i + 1, 0, iso, pts, cols, mx, my)
    ELSE LET cs == CellCalls(cols, my, i, j, Cs[k + 1])
             Added[n \in 0..Len(cs)] ==
                 IF n = 0 THEN iso
                 ELSE add_new_point(cs[n][1], cs[n][2], cs[n][3], cs[n][4],
                                    Cs[k + 1], pts, Added[n - 1])
         IN IsolinesFrom(k, i, j + 1, Added[Len(cs)], pts, cols, mx, my)

\* a create_isolines that does not clear its outputs
create_isolines_kept(iso, pts, cols, mx, my) ==
    IsolinesFrom(0, 0, 0, iso, pts, cols, mx, my)

\* create_isolines(isopoints, iso_indices, points, point_colours, max_x, max_y,
\* Cs): isopoints.clear(); iso_indices.clear(); then the loops.  iso is
\* <<isopoints, iso_indices>> at entry, the result is the pair at return.
create_isolines(iso, pts, cols, mx, my) ==
    IsolinesFrom(0, 0, 0, <<<<>>, <<>>>>, pts, cols, mx, my)

\* the inputs of the calls checked
GridSizes == {<<2, 2>>, <<2, 3>>, <<3, 2>>}
ColourValues == {0, 100, 255}
ThresholdLists == {<<100>>, <<200, 100, 50>>}
EarlierIsolines == {<< <<>>, <<>> >>, << <<<<0, 0>>, <<500, 500>>>>, <<0, 1>> >>}

InitIso ==
    /\ prog = "homework1"
    /\ pc = "init"
    /\ step = 1
    /\ done = <<>>
    /\ exc = ""
    /\ stderr = <<>>
    /\ exit_code = -1
    /\ running = TRUE
    /\ event = NoEvent
    /\ n_events = 0
    /\ n_frames = 0
    /\ dt = 0
    /\ time = 0
    /\ width = 0
    /\ height = 0
    /\ button_down = << >>
    /\ draws = <<>>
    /\ bunny_x = 0
    /\ bunny_y = 0
    /\ angle_y = 0
    /\ offset_z = -2
    /\ n_meshes = 0
    /\ mesh_min = <<0, 0, 0>>
    /\ mesh_max = <<0, 0, 0>>
    /\ vaos = <<>>
    /\ camera_position = <<Tenths(0), 15, Tenths(3)>>
    /\ camera_rotation = 0
    /\ paused = FALSE
    /\ instances = [L \in 0..(NumLods - 1) |-> <<>>]
    /\ printed = <<>>
    /\ queries = <<>>
    /\ is_query_free = <<>>
    /\ begun = <<>>
    /\ results_read = <<>>
    /\ ended = <<>>
    /\ result_available = {}
    /\ unavailable = <<>>
    /\ quality = 0
    /\ vertices = <<>>
    /\ vertices_bezier = <<>>
    /\ vbo = <<>>
    /\ vbo_bezier = <<>>
    /\ grid_w = 0
    /\ grid_h = 0
    /\ iso_call = <<>>
    /\ \E g \in GridSizes :
          /\ max_x = g[1]
          /\ max_y = g[2]
          /\ points = init_coordinates_grid(g[1], g[2])
          /\ point_colours \in [1..(g[1] * g[2]) -> ColourValues]
    /\ Cs \in ThresholdLists
    /\ \E iso \in EarlierIsolines : isopoints = iso[1] /\ iso_indices = iso[2]
    /\ indices = <<>>
    /\ calls = 0

\* create_isolines(isopoints, iso_indices, points, point_colours, max_x, max_y, Cs)
CreateIsolines ==
    /\ calls < MaxCalls
    /\ \E iso \in {create_isolines(<<isopoints, iso_indices>>, points, point_colours,
                                     max_x, max_y)} :
          /\ isopoints' = iso[1]
          /\ iso_indices' = iso[2]
    /\ calls' = calls + 1
    /\ UNCHANGED <<mainVars, p4Vars, p5Vars, p11Vars, quality, p3Vars, hwVars,
                   points, point_colours, max_x, max_y, indices>>

SpecIso == InitIso /\ [][CreateIsolines]_vars

(***************************************************************************)
(* init_grid_indices on its own, called again and again on one vector as   *)
(* update_grid does with points_indices.                                   *)
(***************************************************************************)
\* what the inner loop pushes for the row i from j on
RECURSIVE GridIndicesOfRow(_, _, _)
GridIndicesOfRow(i, j, my) ==
    IF j >= my - 1 THEN <<>>
    ELSE <<i * my + j, (i + 1) * my + j, i * my + (j + 1),
           (i + 1) * my + j, (i + 1) * my + (j + 1), i * my + (j + 1)>>
         \o GridIndicesOfRow(i, j + 1, my)

\* the outer loop from the row i on, ind the vector so far
RECURSIVE GridIndicesFrom(_, _, _, _)
GridIndicesFrom(i, ind, mx, my) ==
    IF i >= mx - 1 THEN ind
    ELSE GridIndicesFrom(i + 1, ind \o GridIndicesOfRow(i, 0, my), mx, my)

\* an init_grid_indices that does not clear the vector
init_grid_indices_kept(ind, mx, my) ==
    GridIndicesFrom(0, ind, mx, my)

\* init_grid_indices(indices, max_x, max_y): indices.clear(); then the loops.
\* ind is the vector at entry, the result is the vector at return.
init_grid_indices(ind, mx, my) ==
    GridIndicesFrom(0, <<>>, mx, my)

\* the grid sizes of the calls checked; main calls with 10 and more
GridSides == 2..MaxSide

\* main before the first call: std::vector<unsigned int> points_indices
InitIndices ==
    /\ prog = "homework1"
    /\ InitMain
    /\ points = <<>>
    /\ point_colours = <<>>
    /\ max_x = 0
    /\ max_y = 0
    /\ isopoints = <<>>
    /\ iso_indices = <<>>
    /\ indices = <<>>
    /\ calls = 0

\* init_grid_indices(indices, max_x, max_y)
InitGridIndices ==
    /\ calls < MaxCalls
    /\ \E mx \in GridSides, my \in GridSides :
          /\ max_x' = mx
          /\ max_y' = my
          /\ indices' = init_grid_indices(indices, mx, my)
    /\ calls' = calls + 1
    /\ UNCHANGED <<mainVars, p4Vars, p5Vars, p11Vars, quality, p3Vars, hwVars,
                   points, point_colours, isopoints, iso_indices>>

SpecIndices == InitIndices /\ [][InitGridIndices]_vars

\* practice 11 alone
\* practice 3 in its loop before the first frame, LEFT pressed so far as many
\* times as LeftPresses says; n_events counts the events from here on
LeftPresses == {0, 28}

InitCurve ==
    /\ prog = "practice3"
    /\ pc = "poll"
    /\ step = Len(InitOrder(prog)) + 1
    /\ done = InitOrder(prog)
    /\ exc = ""
    /\ stderr = <<>>
    /\ exit_code = -1
    /\ running = TRUE
    /\ event = NoEvent
    /\ n_events = 0
    /\ n_frames = 0
    /\ dt = 0
    /\ time = 0
    /\ width = InitialSize[1]
    /\ height = InitialSize[2]
    /\ button_down = << >>
    /\ draws = <<>>
    /\ bunny_x = 0
    /\ bunny_y = 0
    /\ angle_y = 0
    /\ offset_z = -2
    /\ n_meshes = 0
    /\ mesh_min = <<0, 0, 0>>
    /\ mesh_max = <<0, 0, 0>>
    /\ vaos = <<>>
    /\ camera_position = <<Tenths(0), 15, Tenths(3)>>
    /\ camera_rotation = 0
    /\ paused = FALSE
    /\ instances = [L \in 0..(NumLods - 1) |-> <<>>]
    /\ printed = <<>>
    /\ queries = <<>>
    /\ is_query_free = <<>>
    /\ begun = <<>>
    /\ results_read = <<>>
    /\ ended = <<>>
    /\ result_available = {}
    /\ unavailable = <<>>
    /\ quality \in {30 - n : n \in LeftPresses}
    /\ vertices = InitialVertices
    /\ vertices_bezier = count_bezier_vertices(quality, InitialVertices, NaNVec2)
    /\ vbo = vertices
    /\ vbo_bezier = vertices_bezier
    /\ grid_w = 0
    /\ grid_h = 0
    /\ Cs = <<>>
    /\ iso_call = <<>>
    /\ points = <<>>
    /\ point_colours = <<>>
    /\ max_x = 0
    /\ max_y = 0
    /\ isopoints = <<>>
    /\ iso_indices = <<>>
    /\ indices = <<>>
    /\ calls = 0

NextCurve ==
    \/ PollEmpty
    \/ Shutdown
    \/ NextP3

SpecCurve == InitCurve /\ [][NextCurve]_vars

\* homework 1 in its loop, after as many frames with LEFT held, one second
\* each, as LeftFrames says; n_events and n_frames count from here on
LeftFrames == {0, 48}

InitGrid ==
    /\ prog = "homework1"
    /\ pc = "poll"
    /\ step = Len(InitOrder(prog)) + 1
    /\ done = InitOrder(prog)
    /\ exc = ""
    /\ stderr = <<>>
    /\ exit_code = -1
    /\ running = TRUE
    /\ event = NoEvent
    /\ n_events = 0
    /\ n_frames = 0
    /\ \E n \in LeftFrames :
          /\ dt = (IF n = 0 THEN 0 ELSE 1)
          /\ time = n
          /\ button_down = [k \in (IF n = 0 THEN {} ELSE {"SDLK_LEFT"}) |-> TRUE]
          /\ quality = 500 - 10 * n
          /\ draws = (IF n = 0 THEN <<>>
                      ELSE <<Draw("glDrawElements", 6 * (quality + 9) * (quality + 9)),
                             Draw("glDrawElements", 0)>>)
          /\ iso_call = (IF n = 0 THEN <<>>
                         ELSE <<[time |-> n, max_x |-> quality + 10, max_y |-> quality + 10,
                                 Cs |-> <<200, 100, 50>>]>>)
    /\ width = InitialSize[1]
    /\ height = InitialSize[2]
    /\ bunny_x = 0
    /\ bunny_y = 0
    /\ angle_y = 0
    /\ offset_z = -2
    /\ n_meshes = 0
    /\ mesh_min = <<0, 0, 0>>
    /\ mesh_max = <<0, 0, 0>>
    /\ vaos = <<>>
    /\ camera_position = <<Tenths(0), 15, Tenths(3)>>
    /\ camera_rotation = 0
    /\ paused = FALSE
    /\ instances = [L \in 0..(NumLods - 1) |-> <<>>]
    /\ printed = <<>>
    /\ queries = <<>>
    /\ is_query_free = <<>>
    /\ begun = <<>>
    /\ results_read = <<>>
    /\ ended = <<>>
    /\ result_available = {}
    /\ unavailable = <<>>
    /\ vertices = <<>>
    /\ vertices_bezier = <<>>
    /\ vbo = <<>>
    /\ vbo_bezier = <<>>
    /\ grid_w = quality
    /\ grid_h = quality
    /\ Cs = <<200, 100, 50>>
    /\ points = <<>>
    /\ point_colours = <<>>
    /\ max_x = 0
    /\ max_y = 0
    /\ isopoints = <<>>
    /\ iso_indices = <<>>
    /\ indices = <<>>
    /\ calls = 0

NextGrid ==
    \/ PollEmpty
    \/ Shutdown
    \/ NextHw

SpecGrid == InitGrid /\ [][NextGrid]_vars

InitLod == Init /\ prog = "practice11"
SpecLod == InitLod /\ [][NextMain \/ NextP11]_vars

\* The results the GL has not reported by the end of the frame that began the
\* query are reported at the end of the next one.
Timely ==
    \A i \in 1..Len(queries) :
        (~is_query_free[i] /\ queries[i] # begun[Len(begun)])
            => queries[i] \in result_available'

NextLodTimely ==
    \/ NextMain
    \/ \E e \in EventsOf("practice11") : P11Poll(e)
    \/ \E d \in DtValues : P11Frame(d)
    \/ \E a \in SUBSET (1..(MaxFrames + 1)) : P11PollQueries(a) /\ Timely

\* The loop goes from one part of its body to the next: SDL_PollEvent comes to
\* return 0, the frame runs to its end or dies, the loop over the queries ends.
LoopAdvances ==
    /\ prog = "practice11"
    /\ \/ pc = "poll" /\ pc' \in {"body", "shutdown"}
       \/ pc = "body" /\ n_frames < FramesIn /\ pc' \in {"queries", "crashed"}
       \/ pc = "queries" /\ pc' = "poll"

\* practice 11 with a loop that keeps taking its steps and a GL that reports
\* every result in time
SpecLodFair == InitLod /\ [][NextLodTimely]_vars /\ WF_pc(LoopAdvances)

(***************************************************************************)
(* The claims.                                                             *)
(***************************************************************************)
Range(q) == {q[i] : i \in 1..Len(q)}
Pos(q, x) == CHOOSE i \in 1..Len(q) : q[i] = x
Before(q, x, y) == x \in Range(q) /\ y \in Range(q) /\ Pos(q, x) < Pos(q, y)

\* C1: in every program a failed initialization step (SDL_Init, window, GL
\* context, glewInit, the OpenGL 3.3 check, either shader, the link) throws an
\* exception that the handler around main catches: the exception carries the
\* failed step's message, control is in the handler or past it, and once the
\* process has exited exactly that message is on standard error and the exit
\* code is EXIT_FAILURE, which is not zero.
C1_InitFailureReported ==
    exc # "" =>
        /\ InitOrder(prog)[step] \in Failable
        /\ exc = Message(prog, InitOrder(prog)[step])
        /\ pc \in {"catch", "exited"}
        /\ pc = "exited" => stderr = <<exc>> /\ exit_code = EXIT_FAILURE /\ exit_code # 0
        /\ pc = "catch" => stderr = <<>> /\ exit_code = -1

\* the link fails in practice 11 and the process has exited
C1_Witness ==
    /\ prog = "practice11"
    /\ pc = "exited"
    /\ exc = "Program linkage failed: "
    /\ InitOrder(prog)[step] = "create_program"

\* C2: once an initialization step has failed, every later step of the run
\* leaves the initialization where it stopped (no step is attempted again), polls
\* no event, renders no frame and issues no draw call; control only moves from
\* the handler to the exit.
C2_FailureIsTerminal ==
    [][exc # "" =>
          /\ step' = step /\ done' = done /\ exc' = exc
          /\ n_events' = n_events /\ n_frames' = n_frames /\ draws' = draws
          /\ pc = "catch" /\ pc' = "exited"]_vars

\* window creation fails in homework 1; the message is printed, the process exits
C2_Witness ==
    /\ prog = "homework1"
    /\ pc = "exited"
    /\ exc = "SDL_CreateWindow: "
    /\ stderr = <<"SDL_CreateWindow: ">>
    /\ done = <<"SDL_Init", "SDL_GL_SetAttribute">>

\* C3: in every program a draw call or a buffer swap happens only after the
\* window was created and the attributes were requested, both before the GL
\* context was created, then GLEW was initialized, then both shaders were
\* compiled, then the program was linked.
C3_FrameOnlyAfterInit ==
    (draws # <<>> \/ n_frames > 0) =>
        /\ Before(done, "SDL_CreateWindow", "SDL_GL_CreateContext")
        /\ Before(done, "SDL_GL_SetAttribute", "SDL_GL_CreateContext")
        /\ Before(done, "SDL_GL_CreateContext", "glewInit")
        /\ Before(done, "glewInit", "create_shader(GL_VERTEX_SHADER)")
        /\ Before(done, "glewInit", "create_shader(GL_FRAGMENT_SHADER)")
        /\ Before(done, "create_shader(GL_VERTEX_SHADER)", "create_program")
        /\ Before(done, "create_shader(GL_FRAGMENT_SHADER)", "create_program")
        /\ exc = ""

\* practice 1, which creates the window before it requests the attributes, has
\* rendered a frame
C3_Witness ==
    /\ prog = "practice1"
    /\ n_frames = 1
    /\ draws # <<>>
    /\ Before(done, "SDL_CreateWindow", "SDL_GL_SetAttribute")

\* C10: in practice 4 every key-down event of an arrow key that SDL_PollEvent
\* returns moves the bunny: LEFT decreases and RIGHT increases bunny_x, UP
\* increases and DOWN decreases bunny_y, and none is consumed without effect.
C10_EveryArrowKeyDownMoves ==
    [][(prog = "practice4" /\ n_events' = n_events + 1 /\ event'.type = "SDL_KEYDOWN") =>
          /\ event'.sym = "SDLK_LEFT" => bunny_x' < bunny_x
          /\ event'.sym = "SDLK_RIGHT" => bunny_x' > bunny_x
          /\ event'.sym = "SDLK_UP" => bunny_y' > bunny_y
          /\ event'.sym = "SDLK_DOWN" => bunny_y' < bunny_y]_vars

(***************************************************************************)
(* Practice 11: the lists of a frame.                                      *)
(***************************************************************************)
\* a step that is one frame of practice 11, from the frame time to the print
\* or to the read outside the meshes
FrameStep == prog = "practice11" /\ pc = "body" /\ pc' \in {"queries", "crashed"}

\* the square of the distance between two points, in tenths squared
DistSq(u, v) == Dot(Sub(u, v), Sub(u, v))

\* the translations held by the lists, and how many entries the lists hold
Entries(lists) == UNION {Range(lists[L]) : L \in DOMAIN lists}
Total(lists) == Len(lists[0]) + Len(lists[1]) + Len(lists[2])
                + Len(lists[3]) + Len(lists[4]) + Len(lists[5])

\* the grid translations whose moved bounding box meets the frustum
Passing(frustum) ==
    {t \in Range(GridTranslations) :
        Intersect(Aabb(Add(mesh_min, t), Add(mesh_max, t)), frustum)}

MaxOf(S) == CHOOSE x \in S : \A y \in S : y <= x

\* C4: every translation that passes the frustum test of a frame is in exactly
\* one of the six lists; an entry of list L has floor(distance to the camera /
\* fixed_lod_value) clamped to 0..5 equal to L, so no index is outside 0..5;
\* and an entry of a lower list is never farther from the camera than an entry
\* of a higher list.
C4_OneListByClampedDistance ==
    [][FrameStep =>
         \E lists \in {instances'} :
         \E camera \in {camera_position'} :
         \E f \in {Frustum(Perspective(width', height', near, far),
                           View(camera_rotation', camera_position'))} :
         \E passing \in {Passing(f)} :
         /\ DOMAIN lists = 0..MaxLod
         /\ Entries(lists) = passing
         /\ Total(lists) = Cardinality(passing)
         /\ \A L \in 0..MaxLod : \A k \in 1..Len(lists[L]) :
               LET d == DistSq(lists[L][k], camera)
                   lo == Tenths(L * fixed_lod_value)
                   hi == Tenths((L + 1) * fixed_lod_value)
               IN /\ lo * lo <= d
                  /\ L < MaxLod => d < hi * hi
         /\ \A L \in 0..(MaxLod - 1) :
               lists[L] # <<>> =>
                  \E m \in {MaxOf({DistSq(t, camera) : t \in Range(lists[L])})} :
                     \A H \in (L + 1)..MaxLod : \A k \in 1..Len(lists[H]) :
                        m <= DistSq(lists[H][k], camera)
    ]_vars

\* a frame has filled a list below the last and put into the last list a
\* translation more than six units away, where the clamp acts
C4_Witness ==
    /\ prog = "practice11"
    /\ pc = "queries"
    /\ \E L \in 0..(MaxLod - 1) : instances[L] # <<>>
    /\ \E k \in 1..Len(instances[MaxLod]) :
          DistSq(instances[MaxLod][k], camera_position) >= 3600

\* C5: after a frame, each of the 1024 grid translations is in the lists
\* exactly when its moved bounding box meets the frustum of that frame's
\* projection * view; nothing of the frame before is left, no translation is
\* there twice, and the lists hold at most 1024 entries.
C5_ListsAreTheVisibleGrid ==
    [][FrameStep =>
         \E lists \in {instances'} :
         \E held \in {Entries(instances')} :
         \E f \in {Frustum(Perspective(width', height', near, far),
                           View(camera_rotation', camera_position'))} :
         /\ Len(GridTranslations) = 1024
         /\ \A k \in 1..Len(GridTranslations) :
               GridTranslations[k] \in held
               <=> Intersect(Aabb(Add(mesh_min, GridTranslations[k]),
                                  Add(mesh_max, GridTranslations[k])), f)
         /\ Total(lists) = Cardinality(held)
         /\ Total(lists) <= 1024
    ]_vars

\* the second frame has run with the camera turned: its lists hold some of
\* the grid and not all of it, and not what the first frame held
C5_Witness ==
    /\ prog = "practice11"
    /\ pc = "queries"
    /\ n_frames = 2
    /\ camera_rotation # 0
    /\ Total(instances) > 0
    /\ Total(instances) < 1024

\* C6: a frame of practice 11 issues six instanced draws, for the levels 0..5
\* in this order; the draw of level L uses mesh L and VAO L, the list
\* instances[L] as the translation buffer and its size as the instance count,
\* and L is smaller than the number of meshes and of VAOs.
C6_SixDrawsWithinTheMeshes ==
    (prog = "practice11" /\ pc \in {"queries", "crashed"}) =>
        /\ Len(draws) = NumLods
        /\ \A L \in 0..(NumLods - 1) :
              /\ draws[L + 1].call = "glDrawElementsInstanced"
              /\ draws[L + 1].mesh = L
              /\ L < n_meshes
              /\ L < Len(vaos)
              /\ draws[L + 1].vao = vaos[L + 1]
              /\ draws[L + 1].data = instances[L]
              /\ draws[L + 1].count = Len(instances[L])

\* C7: the number printed after "Number of objects drawn: " is the sum of the
\* instance counts of the six draws of the frame.
C7_PrintedIsTheNumberDrawn ==
    (prog = "practice11" /\ pc = "queries") =>
        /\ printed # <<>>
        /\ printed[Len(printed)] = draws[1].count + draws[2].count + draws[3].count
                                   + draws[4].count + draws[5].count + draws[6].count

(***************************************************************************)
(* The state the user controls.                                            *)
(***************************************************************************)
UserState == <<vertices, quality, grid_w, grid_h, Cs, offset_z, angle_y, bunny_x, bunny_y,
               camera_position, camera_rotation, paused>>

\* some key is recorded as held in button_down
KeyHeld == \E k \in DOMAIN button_down : button_down[k]

\* C8: the control points and quality of practice 3, the quality and the
\* thresholds of homework 1, the offset and angle of the cow, the position of
\* the bunny and the camera position, rotation and pause flag of practice 11
\* change only in a step that handles an input event or in a frame body
\* entered with a key recorded as held; a frame without either leaves them.
C8_UserStateFollowsInput ==
    [][UserState' # UserState =>
          \/ n_events' = n_events + 1 /\ event' # NoEvent
          \/ pc = "body" /\ KeyHeld
    ]_vars

\* homework 1 has run a frame with SDLK_LEFT held and the grid has shrunk
C8_Witness ==
    /\ prog = "homework1"
    /\ n_frames >= 1
    /\ "SDLK_LEFT" \in DOMAIN button_down
    /\ button_down["SDLK_LEFT"]
    /\ quality = 490
    /\ grid_w = 490

(***************************************************************************)
(* create_isolines.                                                        *)
(***************************************************************************)
\* C9: what a call of create_isolines leaves in isopoints and iso_indices is
\* what the loops give from empty vectors on the grid points, the colours, the
\* grid size and the thresholds passed: nothing that was in the vectors at
\* entry is left, and a second call with the same arguments gives the same.
C9_CreateIsolinesKeepsNothing ==
    [][calls' = calls + 1 =>
          /\ <<isopoints', iso_indices'>>
                = IsolinesFrom(0, 0, 0, << <<>>, <<>> >>, points, point_colours, max_x, max_y)
          /\ calls >= 1 => isopoints' = isopoints /\ iso_indices' = iso_indices
    ]_vars

\* a second call has run on vectors that held the isolines of the first
C9_Witness ==
    /\ calls = 2
    /\ Len(Cs) = 3
    /\ isopoints # <<>>
    /\ Len(iso_indices) = Len(isopoints)

(***************************************************************************)
(* The end of the loop.                                                    *)
(***************************************************************************)
\* C11: once SDL_QUIT has been handled (running is false) no draw call and no
\* buffer swap follows; what follows is SDL_GL_DeleteContext and then
\* SDL_DestroyWindow.
C11_NothingRenderedAfterQuit ==
    [][~running =>
          /\ n_frames' = n_frames
          /\ draws' = draws
          /\ done' # done => done' = done \o <<"SDL_GL_DeleteContext", "SDL_DestroyWindow">>
    ]_vars

(***************************************************************************)
(* Practice 11: the timer queries.                                         *)
(***************************************************************************)
\* how many times x occurs in the sequence q
Count(q, x) == Cardinality({i \in 1..Len(q) : q[i] = x})

\* the queries that were begun and whose result was not read since
InFlight == {q \in Range(begun) : Count(begun, q) > Count(results_read, q)}

\* C12: a frame of practice 11 calls glBeginQuery once, on a query object
\* that was marked free before the frame or that the frame created; that
\* object has no begin whose result is still unread; and the frame that
\* reaches its end has ended that one query.
C12_BeginOnlyOnFreeQuery ==
    [][FrameStep =>
          /\ Len(begun') = Len(begun) + 1
          /\ LET q == begun'[Len(begun')]
             IN /\ \/ \E i \in 1..Len(queries) : queries[i] = q /\ is_query_free[i]
                   \/ q \notin Range(queries) /\ queries' = Append(queries, q)
                /\ q \notin InFlight
          /\ pc' = "queries" => ended' = Append(ended, begun'[Len(begun')])
          /\ pc' = "crashed" => ended' = ended
    ]_vars

\* the second frame has begun a new query object while the first was still
\* unread
C12_Witness ==
    /\ prog = "practice11"
    /\ pc = "queries"
    /\ Len(begun) = 2
    /\ begun[1] # begun[2]
    /\ results_read = <<>>
    /\ ended = begun

\* the results read by the step
NewlyRead == SubSeq(results_read', Len(results_read) + 1, Len(results_read'))

PollStep == pc = "queries" /\ pc' = "poll"

\* the k-th query begun has had its result read
ReadBack(k) ==
    /\ Len(begun) >= k
    /\ Count(results_read, begun[k]) >= Count(SubSeq(begun, 1, k), begun[k])

\* every step keeps the reads and the free marks in step with the reports
ReadOnceAtAvailability ==
    [][ /\ \A i \in 1..Len(queries) :
             Count(begun, queries[i]) - Count(results_read, queries[i])
                 = IF is_query_free[i] THEN 0 ELSE 1
        /\ PollStep =>
             /\ SubSeq(results_read', 1, Len(results_read)) = results_read
             /\ queries' = queries
             /\ \A i \in 1..Len(queries) :
                   IF ~is_query_free[i] /\ queries[i] \in result_available'
                   THEN is_query_free'[i] /\ Count(NewlyRead, queries[i]) = 1
                   ELSE /\ is_query_free'[i] = is_query_free[i]
                        /\ Count(NewlyRead, queries[i]) = 0
             /\ Range(NewlyRead) \subseteq Range(queries)
        /\ ~PollStep =>
             /\ results_read' = results_read
             /\ \A i \in 1..Len(is_query_free') :
                   is_query_free'[i] => i <= Len(is_query_free) /\ is_query_free[i]
      ]_vars

\* a query begun with a frame still to come is read back unless the loop ends
ReadBackInTime ==
    \A k \in 1..MaxFrames :
        (Len(begun) >= k /\ n_frames < MaxFrames)
            ~> (ReadBack(k) \/ ~running \/ pc = "crashed")

\* C13: a query begun has its result read once, at the first loop over the
\* queries that gets its result reported available, and becomes free at that
\* step and at no other; with a GL that reports every result and a loop that
\* goes on to another frame, every query begun is read back and freed.
C13_ResultReadOnceWhenAvailable == ReadOnceAtAvailability /\ ReadBackInTime

\* two queries in flight are both reported and read at the end of the second frame
C13_Witness ==
    /\ prog = "practice11" /\ pc = "poll" /\ n_frames = 2
    /\ Len(queries) = 2 /\ result_available = {1, 2}
    /\ results_read = <<1, 2>> /\ is_query_free = <<TRUE, TRUE>>

\* C14: queries and is_query_free have the same length; a frame creates a
\* query only when none is free and otherwise begins the free one of lowest
\* index; the pool never shrinks, and it holds at most one query more than the
\* largest number of queries a loop over the queries left without a result.
C14_PoolGrowsOnlyWhenNoneFree ==
    /\ [](/\ Len(queries) = Len(is_query_free)
          /\ Len(queries) <= 1 + MaxOf(Range(unavailable) \cup {0}))
    /\ [][ /\ Len(queries') >= Len(queries)
           /\ SubSeq(queries', 1, Len(queries)) = queries
           /\ ~FrameStep => queries' = queries
           /\ FrameStep =>
                IF \E i \in 1..Len(queries) : is_query_free[i]
                THEN /\ queries' = queries
                     /\ \E i \in 1..Len(queries) :
                           /\ is_query_free[i]
                           /\ \A j \in 1..(i - 1) : ~is_query_free[j]
                           /\ begun' = Append(begun, queries[i])
                           /\ is_query_free' = [is_query_free EXCEPT ![i] = FALSE]
                ELSE /\ Len(queries') = Len(queries) + 1
                     /\ queries'[Len(queries')] \notin Range(queries)
                     /\ begun' = Append(begun, queries'[Len(queries')])
                     /\ is_query_free' = Append(is_query_free, FALSE)
         ]_vars

\* the third frame finds both queries free and begins the first again
C14_Witness ==
    /\ prog = "practice11" /\ pc = "queries" /\ n_frames = 3
    /\ queries = <<1, 2>> /\ begun = <<1, 2, 1>> /\ unavailable = <<1, 0>>

\* the parameters bezier is called with at the current quality, and 0 and 1
Parameters == {Parameter(i, quality) : i \in 0..(quality - 1)} \cup {<<0, 1>>, <<1, 1>>}

\* r is a * (1 - t) + b * t, rounded once
Interpolates(r, a, b, t) == 2 * Abs(r * t[2] - (a * (t[2] - t[1]) + b * t[1])) <= t[2]

\* r is a * (1 - t)^2 + 2 * b * t * (1 - t) + c * t^2, rounded at both passes
Quadratic(r, a, b, c, t) ==
    Abs(r * t[2] * t[2] - (a * (t[2] - t[1]) * (t[2] - t[1])
                           + 2 * b * t[1] * (t[2] - t[1]) + c * t[1] * t[1]))
        <= t[2] * t[2]

KeyStep ==
    /\ prog = "practice3" /\ pc = "poll" /\ n_events' = n_events + 1
    /\ event'.type = "SDL_KEYDOWN" /\ event'.sym \in {"SDLK_LEFT", "SDLK_RIGHT"}

\* C15: on a list that is not empty bezier gives the first control point at
\* t = 0 and the last at t = 1, the point itself when there is one point, the
\* linear interpolation when there are two and the quadratic curve when there
\* are three; a recomputation of the curve leaves the control points as they were.
C15_BezierIsDeCasteljau ==
    /\ [](prog = "practice3" /\ vertices # <<>> =>
            LET n == Len(vertices)
                p == [i \in 1..n |-> vertices[i].position]
            IN /\ bezier(vertices, <<0, 1>>, NaNVec2) = p[1]
               /\ bezier(vertices, <<1, 1>>, NaNVec2) = p[n]
               /\ \A t \in Parameters :
                     LET r == bezier(vertices, t, NaNVec2)
                     IN /\ n = 1 => r = p[1]
                        /\ n > 1 => r.nan = IsNaN(t)
                        /\ n = 2 /\ ~IsNaN(t) =>
                              /\ Interpolates(r.x, p[1].x, p[2].x, t)
                              /\ Interpolates(r.y, p[1].y, p[2].y, t)
                        /\ n = 3 /\ ~IsNaN(t) =>
                              /\ Quadratic(r.x, p[1].x, p[2].x, p[3].x, t)
                              /\ Quadratic(r.y, p[1].y, p[2].y, p[3].y, t)
               /\ quality > 1 /\ pc # "crashed" =>
                     /\ vertices_bezier[1].position = p[1]
                     /\ vertices_bezier[quality].position = p[n])
    /\ [][KeyStep => vertices' = vertices]_vars

\* the curve of two control points sampled 29 times
C15_Witness ==
    /\ prog = "practice3" /\ pc = "body" /\ Len(vertices) = 2 /\ quality = 29
    /\ Len(vertices_bezier) = 29
    /\ vertices_bezier[15].position = Vec2(100 * 100, 100 * 350)

\* an event of practice 3 after which update_vbos runs: the events that change
\* the control points or the quality
Recomputed ==
    /\ prog = "practice3" /\ pc = "poll" /\ n_events' = n_events + 1
    /\ vertices' # vertices \/ quality' # quality

\* C16: every recomputation of the curve runs bezier on a list of control
\* points that is not empty.
C16_BezierNeverOnEmptyList == [][Recomputed => vertices' # <<>>]_vars

\* C17: at every quality the keys reach, which is never below 1, the parameter
\* of sample i is i / (quality - 1) with a denominator that is not zero: 0 for
\* the first sample, 1 for the last, within [0, 1] for all.
C17_ParametersWithinUnitInterval ==
    prog = "practice3" =>
        /\ quality >= 1
        /\ \A i \in 0..(quality - 1) :
              LET t == Parameter(i, quality)
              IN /\ ~IsNaN(t)
                 /\ 0 <= t[1] /\ t[1] <= t[2]
                 /\ i = 0 => t[1] = 0
                 /\ i = quality - 1 => t[1] = t[2]

\* vb is the curve of the control points vs sampled q times
Sampled(vb, q, vs) == \E g \in GarbagePoints : vb = count_bezier_vertices(q, vs, g)

P3Event == prog = "practice3" /\ pc = "poll" /\ n_events' = n_events + 1

P3Draw == prog = "practice3" /\ pc = "body" /\ pc' = "poll"

\* C18: at every frame draw vertices_bezier has quality points, is the curve
\* of the current control points sampled at the current quality, and both
\* buffers hold what the vectors hold; an event that changes the control
\* points or the quality leaves it so, an event that changes neither leaves
\* the vectors and the buffers as they were.
C18_CurveFollowsPointsAndQuality ==
    [][ /\ P3Draw =>
             /\ Len(vertices_bezier) = quality
             /\ Sampled(vertices_bezier, quality, vertices)
             /\ vbo = vertices /\ vbo_bezier = vertices_bezier
             /\ draws'[1].count = Len(vbo) /\ draws'[2].count = Len(vbo)
             /\ draws'[3].count = quality
        /\ P3Event =>
             IF vertices' = vertices /\ quality' = quality
             THEN UNCHANGED <<vertices_bezier, vbo, vbo_bezier>>
             ELSE pc' # "crashed" =>
                     /\ Sampled(vertices_bezier', quality', vertices')
                     /\ vbo' = vertices' /\ vbo_bezier' = vertices_bezier'
      ]_vars

\* a frame drawn after LEFT at quality 1 left the one sample of the curve alone
C18_Witness ==
    /\ prog = "practice3" /\ pc = "poll" /\ n_frames = 1 /\ quality = 1
    /\ n_events = 2 /\ event = NoEvent /\ Len(vertices) = 3
    /\ draws # <<>> /\ draws[3].count = 1

LeftClick ==
    P3Event /\ event'.type = "SDL_MOUSEBUTTONDOWN" /\ event'.sym = "SDL_BUTTON_LEFT"

RightClick ==
    P3Event /\ event'.type = "SDL_MOUSEBUTTONDOWN" /\ event'.sym = "SDL_BUTTON_RIGHT"

\* the control point a left click makes
Clicked(e) == Vertex(Vec2(100 * e.x, 100 * e.y), <<20, 20, 20, 20>>)

\* C19: a left click appends one control point at the click and keeps the
\* earlier ones; a right click removes the last control point, or changes
\* nothing when there is none; a right click that follows a left click gives
\* back the list the left click found; no click changes quality.
C19_ClicksPushAndPop ==
    [][ /\ LeftClick =>
             /\ vertices' = Append(vertices, Clicked(event'))
             /\ quality' = quality
        /\ RightClick =>
             /\ quality' = quality
             /\ IF vertices = <<>>
                THEN UNCHANGED <<pc, vertices, vertices_bezier, vbo, vbo_bezier>>
                ELSE /\ Len(vertices') = Len(vertices) - 1
                     /\ \A i \in 1..Len(vertices') : vertices'[i] = vertices[i]
             /\ event.type = "SDL_MOUSEBUTTONDOWN" /\ event.sym = "SDL_BUTTON_LEFT" =>
                   vertices = Append(vertices', Clicked(event))
      ]_vars

\* a left click and then a right click, and the three control points are back
C19_Witness ==
    /\ prog = "practice3" /\ pc = "poll" /\ n_events = 2
    /\ event.type = "SDL_MOUSEBUTTONDOWN" /\ event.sym = "SDL_BUTTON_RIGHT"
    /\ vertices = InitialVertices /\ quality = 30

\* a right click on the list that three right clicks emptied
RightClickOnEmptyList ==
    /\ prog = "practice3" /\ pc = "poll" /\ n_events = 4
    /\ event.type = "SDL_MOUSEBUTTONDOWN" /\ event.sym = "SDL_BUTTON_RIGHT"
    /\ vertices = <<>> /\ Len(vertices_bezier) = 30

(***************************************************************************)
(* create_isolines: the points of a cell.                                  *)
(***************************************************************************)
\* the cells of the grid for each threshold, as <<k, i, j>>
Cells == (1..Len(Cs)) \X (0..(max_x - 2)) \X (0..(max_y - 2))

\* the four edges of the cell (i, j), as pairs of indices into point_colours
EdgesOf(i, j) ==
    LET at(a, b) == a * max_y + b + 1
    IN {{at(i, j), at(i + 1, j)}, {at(i + 1, j), at(i + 1, j + 1)},
        {at(i + 1, j + 1), at(i, j + 1)}, {at(i, j + 1), at(i, j)}}

\* the edges of the cell whose two ends lie on different sides of the border
CrossedEdges(i, j, border) ==
    {e \in EdgesOf(i, j) :
        \E a \in e : \E b \in e : point_colours[a] > border /\ ~(point_colours[b] > border)}

RECURSIVE CrossedIn(_)
CrossedIn(cells) ==
    IF cells = {} THEN 0
    ELSE LET c == CHOOSE x \in cells : TRUE
         IN Cardinality(CrossedEdges(c[2], c[3], Cs[c[1]])) + CrossedIn(cells \ {c})

\* C20: for every cell and every threshold create_isolines adds one point for
\* each edge of the cell whose ends lie on different sides of the threshold and
\* none when the four corners lie on one side: 0, 2 or 4 points for a cell,
\* and an even number of points in all.
C20_PointsOnCrossedEdges ==
    [][calls' = calls + 1 =>
          /\ \A c \in Cells :
                LET border == Cs[c[1]]
                    cs == CellCalls(point_colours, max_y, c[2], c[3], border)
                    corners == UNION EdgesOf(c[2], c[3])
                    crossed == CrossedEdges(c[2], c[3], border)
                IN /\ Len(cs) = Cardinality(crossed)
                   /\ {{cs[n][2] + 1, cs[n][4] + 1} : n \in 1..Len(cs)} = crossed
                   /\ Len(cs) \in {0, 2, 4}
                   /\ Len(cs) = 0 <=>
                         \/ \A a \in corners : point_colours[a] > border
                         \/ \A a \in corners : ~(point_colours[a] > border)
          /\ Len(isopoints') = CrossedIn(Cells)
          /\ Len(isopoints') % 2 = 0
          /\ Len(iso_indices') = Len(isopoints')
    ]_vars

\* a cell whose four edges are all crossed: two corners above the threshold
\* on one diagonal, two below on the other
C20_Witness ==
    /\ calls = 1 /\ max_x = 2 /\ max_y = 2 /\ Cs = <<100>>
    /\ point_colours = <<255, 0, 0, 255>>
    /\ Len(isopoints) = 4

\* p lies on the straight edge from a to b of the grid
OnEdge(p, a, b) ==
    /\ a[1] = b[1] \/ a[2] = b[2]
    /\ Min(a[1], b[1]) <= p[1] /\ p[1] <= Max(a[1], b[1])
    /\ Min(a[2], b[2]) <= p[2] /\ p[2] <= Max(a[2], b[2])

\* the point add_new_point makes of the call c = <<first_colour, ind1,
\* second_colour, ind2>>
PointOf(c, border) ==
    add_new_point(c[1], c[2], c[3], c[4], border, points, << <<>>, <<>> >>)[1][1]

\* C21: add_new_point is called only for two corners on different sides of the
\* threshold, so the denominator of coeff is not zero and 0 <= q <= 1, and the
\* point it adds lies on the grid edge between the two corners.
C21_PointsLieOnTheirEdge ==
    [][calls' = calls + 1 =>
          /\ \A c \in Cells :
                LET border == Cs[c[1]]
                    cs == CellCalls(point_colours, max_y, c[2], c[3], border)
                IN \A n \in 1..Len(cs) :
                      LET q == coeff(cs[n][1], cs[n][3], border)
                      IN /\ (cs[n][1] > border) # (cs[n][3] > border)
                         /\ cs[n][1] = point_colours[cs[n][2] + 1]
                         /\ cs[n][3] = point_colours[cs[n][4] + 1]
                         /\ q[2] # 0
                         /\ 0 <= q[1] /\ q[1] <= q[2]
                         /\ OnEdge(PointOf(cs[n], border),
                                   points[cs[n][2] + 1], points[cs[n][4] + 1])
          /\ Range(isopoints')
                = UNION {LET cs == CellCalls(point_colours, max_y, c[2], c[3], Cs[c[1]])
                         IN {PointOf(cs[n], Cs[c[1]]) : n \in 1..Len(cs)} : c \in Cells}
    ]_vars

\* one corner below the threshold and three above: a point strictly inside
\* the edge from lu to ru
C21_Witness ==
    /\ calls = 1 /\ max_x = 2 /\ max_y = 2 /\ Cs = <<100>>
    /\ point_colours = <<0, 255, 255, 255>>
    /\ Len(isopoints) = 2
    /\ isopoints[1] = <<-216, -1000>>

\* C22: after a call of create_isolines iso_indices is as long as isopoints
\* and holds 0, 1, 2, ... in order, so each index is that of a point of isopoints.
C22_IndicesCountThePoints ==
    [][calls' = calls + 1 =>
          /\ Len(iso_indices') = Len(isopoints')
          /\ \A k \in 1..Len(iso_indices') :
                /\ iso_indices'[k] = k - 1
                /\ iso_indices'[k] + 1 \in DOMAIN isopoints'
    ]_vars

\* two cells with a crossed edge in common: its point is in isopoints twice,
\* and each copy has its index
C22_Witness ==
    /\ calls = 1 /\ max_x = 2 /\ max_y = 3 /\ Cs = <<100>>
    /\ \E a \in 1..Len(isopoints) : \E b \in (a + 1)..Len(isopoints) :
          isopoints[a] = isopoints[b]
    /\ Len(iso_indices) = Len(isopoints)

(***************************************************************************)
(* homework 1: the arrow keys of a frame.                                  *)
(***************************************************************************)
HwStep == prog = "homework1" /\ pc = "body" /\ pc' = "poll"

\* the key the frame acts on: the first of LEFT, RIGHT, UP, DOWN that
\* button_down holds as true
FirstHeld ==
    LET on(k) == k \in DOMAIN button_down /\ button_down[k]
    IN IF on("SDLK_LEFT") THEN "SDLK_LEFT"
       ELSE IF on("SDLK_RIGHT") THEN "SDLK_RIGHT"
       ELSE IF on("SDLK_UP") THEN "SDLK_UP"
       ELSE IF on("SDLK_DOWN") THEN "SDLK_DOWN"
       ELSE "none"

\* C23: a frame of homework 1 applies the action of one key, the first of
\* LEFT, RIGHT, UP, DOWN that is recorded as held, once, and of no other key,
\* also when that action does nothing (LEFT at quality 10); with no arrow key
\* held it changes nothing.
C23_FirstHeldArrowKeyActs ==
    [][HwStep =>
          /\ FirstHeld = "SDLK_LEFT" =>
                /\ quality' = (IF quality > 10 THEN quality - 10 ELSE quality)
                /\ Cs' = Cs
          /\ FirstHeld = "SDLK_RIGHT" => quality' = quality + 10 /\ Cs' = Cs
          /\ FirstHeld = "SDLK_UP" =>
                /\ quality' = quality
                /\ Cs' = Cs \o <<(Cs[Len(Cs)] + 200) % 255>>
          /\ FirstHeld = "SDLK_DOWN" =>
                /\ quality' = quality
                /\ Cs' = (IF Len(Cs) > 1 THEN SubSeq(Cs, 1, Len(Cs) - 1) ELSE Cs)
          /\ FirstHeld = "none" => quality' = quality /\ Cs' = Cs
          /\ grid_w' = quality' /\ grid_h' = quality'
          /\ quality' = quality \/ Cs' = Cs
          /\ \A k \in DOMAIN button_down : button_down'[k] = button_down[k]
    ]_vars

\* a second frame with LEFT held at quality 10 and UP held as well: neither
\* the quality nor the thresholds have changed
C23_Witness ==
    /\ prog = "homework1" /\ pc = "poll" /\ n_frames = 2 /\ quality = 10
    /\ "SDLK_UP" \in DOMAIN button_down /\ button_down["SDLK_UP"]
    /\ button_down["SDLK_LEFT"] /\ n_events = 1
    /\ Cs = <<200, 100, 50>>

(***************************************************************************)
(* The button_down map.                                                    *)
(***************************************************************************)
\* the programs whose frame reads button_down
MapPrograms == {"homework1", "practice5", "practice11"}

EventStep == n_events' = n_events + 1

\* what button_down[k] reads after the event e has been handled
AfterEvent(k, e) ==
    IF e.type = "SDL_KEYDOWN" /\ e.sym = k THEN TRUE
    ELSE IF e.type = "SDL_KEYUP" /\ e.sym = k THEN FALSE
    ELSE Held(k)

\* one step of a program that keeps the map: an event step records the event,
\* any other step leaves the map alone, and the frame's update, taken with
\* the queue drained, moves the camera by the keys the map reads as held
KeysFollowEvents ==
    (prog \in MapPrograms) =>
        /\ EventStep => \A k \in AllKeys : Held(k)' = AfterEvent(k, event')
        /\ ~EventStep => \A k \in AllKeys : Held(k)' = Held(k)
        /\ pc = "body" /\ pc' # "body" =>
              /\ event = NoEvent
              /\ prog = "practice5" =>
                    /\ offset_z' = offset_z - (IF Held("SDLK_UP") THEN 4 * dt' ELSE 0)
                                            + (IF Held("SDLK_DOWN") THEN 4 * dt' ELSE 0)
                    /\ angle_y' = angle_y + (IF Held("SDLK_LEFT") THEN 4 * dt' ELSE 0)
                                          - (IF Held("SDLK_RIGHT") THEN 4 * dt' ELSE 0)

\* C24: in homework 1, practice 5 and practice 11 no key reads as held before
\* an event is handled; handling a key-down of k makes button_down[k] true,
\* a key-up of k makes it false, and no other step changes what it reads, so
\* that it tells the most recent key event of k; a frame starts only after
\* SDL_PollEvent has returned 0, and acts on what the map reads then.
C24_MapTellsLastKeyEvent ==
    /\ [](prog \in MapPrograms /\ n_events = 0 /\ pc \in {"init", "setup"} =>
            \A k \in AllKeys : ~Held(k))
    /\ [][KeysFollowEvents]_vars

C24_Witness ==
    /\ prog = "practice5" /\ pc = "poll" /\ n_frames = 1 /\ n_events = 2
    /\ event = KeyUp("SDLK_UP")
    /\ ~Held("SDLK_UP")
    /\ offset_z = -2 - 4 * dt

(***************************************************************************)
(* The index buffer of the grid.                                           *)
(***************************************************************************)
\* the indices of the four corner points of the cell (i, j)
CornersOf(i, j, my) ==
    {i * my + j, (i + 1) * my + j, i * my + (j + 1), (i + 1) * my + (j + 1)}

\* the two ends of the diagonal of the cell (i, j) that the triangles share
DiagonalOf(i, j, my) == {(i + 1) * my + j, i * my + (j + 1)}

\* the indices at the positions from + 1 .. from + 3 of ind, as a set
TriangleAt(ind, from) == {ind[from + 1], ind[from + 2], ind[from + 3]}

\* C25: a call of init_grid_indices leaves 6 * (max_x - 1) * (max_y - 1)
\* indices in the vector, whatever it held before, every one of them an index
\* of a grid point; the six indices of a cell are two triangles of three
\* points each that have the diagonal of the cell in common and between them
\* name the four corners of the cell and nothing else.
C25_TwoTrianglesPerCell ==
    [][calls' = calls + 1 =>
          /\ Len(indices') = 6 * (max_x' - 1) * (max_y' - 1)
          /\ \A k \in 1..Len(indices') : indices'[k] \in 0..(max_x' * max_y' - 1)
          /\ \A i \in 0..(max_x' - 2), j \in 0..(max_y' - 2) :
                LET from == 6 * (i * (max_y' - 1) + j)
                    first == TriangleAt(indices', from)
                    second == TriangleAt(indices', from + 3)
                IN /\ Cardinality(first) = 3
                   /\ Cardinality(second) = 3
                   /\ first \cap second = DiagonalOf(i, j, max_y')
                   /\ first \cup second = CornersOf(i, j, max_y')
    ]_vars

\* the second call on the vector, which held the indices of the first: a grid
\* of 3 by 2 points has two cells
C25_Witness ==
    /\ calls = 2 /\ max_x = 3 /\ max_y = 2
    /\ indices = <<0, 2, 1, 2, 3, 1, 2, 4, 3, 4, 5, 3>>
====
